---------------------------- MODULE Spec2Model ----------------------------
(***************************************************************************)
(* State-machine model of the EmbedAI repository.                          *)
(*                                                                         *)
(* The repository holds several independent programs.  Each is modelled by *)
(* its own group of variables and actions and has its own specification:   *)
(*                                                                         *)
(*   SpecRebuild   admin page DatabaseManagement: the rebuild-index button *)
(*                 and rebuildMutation                                     *)
(*   SpecApi       chat SDK, APIService (the revision with response        *)
(*                 validation) called directly                            *)
(*   SpecApi004    the same calls on the other APIService revision        *)
(*   SpecChat      chat SDK, ChatWidget calling APIService                 *)
(*   SpecChatProps the widget rendered by a host that changes its props    *)
(*   SpecApiLive   APIService with the fairness its timers give            *)
(*   SpecChatLive  ChatWidget with the fairness its runtime gives          *)
(*   SpecUpload    admin page FileUpload: uploadMutation and its progress  *)
(*                 list                                                    *)
(*   SpecIngest    server core: the ingestion pipeline                     *)
(*   SpecQuery     server core: retrieval, fusion, response assembly       *)
(*   SpecIndexManager  server core: rebuild with staged swap, cancel       *)
(*   SpecDeploy    deploy.sh: one run per argument                         *)
(*   SpecDbStart   start-databases.sh: wait_for_services                   *)
(*   SpecApiTimers APIService with the clock of its timeout timers         *)
(*   SpecSdk       chat SDK entry module: init, destroy, open, close       *)
(*   SpecValidation  chat SDK, utils/config: validateConfig                *)
(*                                                                         *)
(* Spec is the interleaving of all of them.                                *)
(***************************************************************************)
EXTENDS Integers, Sequences, FiniteSets, TLC

VARIABLES
    \* ---- frontend_admin/src/pages/DatabaseManagement.tsx ----
    databases,        \* useQuery(['admin-databases']).data: db_id -> status
    refetchPending,   \* a (re)fetch of the database list is in flight
    rebuilds,         \* every rebuildMutation.mutate call made so far
    \* ---- frontend_sdk: services/api (APIService) ----
    apiRevision,      \* which of the two APIService sources is built
    retryAttempts,    \* APIService.retryAttempts
    call,             \* the API call in progress and where it stands
    \* ---- frontend_sdk/src/components/ChatWidget.tsx ----
    maxHistoryLength, \* config.maxHistoryLength
    welcome,          \* config.welcome is a non-empty string
    messages,         \* state.messages
    isLoading,        \* state.isLoading
    sessionId,        \* state.sessionId
    received,         \* argument of the last callbacks.onReceive call
    rendered,         \* the state of the last render: what the handlers close over
    inFlight,         \* apiService.sendMessage calls of the widget not yet settled
    \* ---- frontend_admin/src/pages/Settings.tsx: FileUpload ----
    uploadProgress,   \* the uploadProgress state: a list of UploadProgress
    uploads,          \* every uploadMutation.mutate call made so far
    clearTimers,      \* pending 3 s timers that clear uploadProgress
    nextFile,         \* File objects the browser has handed out so far
    \* ---- server core, Ingestion Pipeline (spec 4.1; no source in src/) ----
    docs,             \* Document records and where their ingestion stands
    vectorStore,      \* Vector Index Store: the chunks written, <<doc, position>>
    graphStore,       \* Graph Store: the documents whose entities are upserted
    \* ---- server core, Hybrid Retriever to Response Assembler (spec 4.3-4.5) ----
    query,            \* the recommendation query in progress
    \* ---- server core, Index Manager (spec 4.2, 6; no source in src/) ----
    indexManager,     \* per knowledge base: the queryable index and its rebuild
    \* ---- deploy.sh ----
    deploy,           \* one run of deploy.sh: its argument, position and effects
    \* ---- start-databases.sh ----
    dbStart,          \* one run of start-databases.sh from wait_for_services on
    \* ---- chat SDK: the entry module and utils/config ----
    sdk,              \* widgetInstance, widgetRoot and what init left in the page
    validation        \* the last validateConfig call: its argument and result

rebuildVars == <<databases, refetchPending, rebuilds>>

apiVars == <<apiRevision, retryAttempts, call>>

widgetVars ==
    <<maxHistoryLength, welcome, messages, isLoading, sessionId, received, rendered, inFlight>>

uploadVars == <<uploadProgress, uploads, clearTimers, nextFile>>

ingestVars == <<docs, vectorStore, graphStore>>

coreVars == <<docs, vectorStore, graphStore, query, indexManager>>

scriptVars == <<deploy, dbStart>>

sdkVars == <<sdk, validation>>

vars == <<rebuildVars, apiVars, widgetVars, uploadVars, coreVars, scriptVars, sdkVars>>

(***************************************************************************)
(* DatabaseManagement: rebuild index                                       *)
(***************************************************************************)

\* The knowledge bases the server lists.
DbIds == {"A", "B"}

\* DatabaseInfo.status as the page reads it (status || 'active').
DbStatus == {"active", "inactive", "building"}

\* Number of rebuildMutation.mutate calls a run of the model makes.
MaxRebuildCalls == 3

RebuildIds == 1..MaxRebuildCalls

\* A mutation that was never started.
NoRebuild == [db |-> "none", state |-> "none", overlapped |-> FALSE]

\* The rebuilds of knowledge base db whose mutationFn has not settled.
RunningRebuilds(db) ==
    {i \in RebuildIds : rebuilds[i].db = db /\ rebuilds[i].state = "running"}

\* What mutationFn resolves to: the mock always reports success.
rebuildMutationFn(dbId) == "success"

\* The rebuild button of a database card is disabled only while the listed
\* status is 'building'.
rebuildButtonDisabled(db) == databases[db] = "building"

InitRebuild ==
    /\ databases \in [DbIds -> {"active"}]
    /\ refetchPending = TRUE
    /\ rebuilds = [i \in RebuildIds |-> NoRebuild]

\* The database list query settles: the server reports each knowledge
\* base's status.  The server is outside the page; any status may come back.
refetch ==
    /\ refetchPending
    /\ \E ds \in [DbIds -> DbStatus] : databases' = ds
    /\ refetchPending' = FALSE
    /\ UNCHANGED <<rebuilds, apiVars, widgetVars, uploadVars, coreVars, scriptVars, sdkVars>>

\* handleRebuildIndex(dbId): the click on the enabled button, window.confirm,
\* and rebuildMutation.mutate(dbId), which starts mutationFn at once.
handleRebuildIndex(db, confirmed) ==
    /\ ~rebuildButtonDisabled(db)
    /\ \E i \in RebuildIds :
          /\ rebuilds[i].state = "none"
          /\ \A j \in RebuildIds : j < i => rebuilds[j].state # "none"
          /\ IF confirmed
             THEN rebuilds' = [rebuilds EXCEPT ![i] =
                      [db |-> db, state |-> "running",
                       overlapped |-> RunningRebuilds(db) # {}]]
             ELSE UNCHANGED rebuilds
    /\ UNCHANGED <<databases, refetchPending, apiVars, widgetVars, uploadVars, coreVars, scriptVars, sdkVars>>

\* The 2000 ms timer of mutationFn fires: the mutation resolves with
\* {success: true}; onSuccess shows the toast and invalidates the list query.
rebuildMutationSettles(i) ==
    /\ rebuilds[i].state = "running"
    /\ rebuilds' = [rebuilds EXCEPT ![i].state = rebuildMutationFn(rebuilds[i].db)]
    /\ refetchPending' = TRUE
    /\ UNCHANGED <<databases, apiVars, widgetVars, uploadVars, coreVars, scriptVars, sdkVars>>

NextRebuild ==
    \/ refetch
    \/ \E db \in DbIds, confirmed \in BOOLEAN : handleRebuildIndex(db, confirmed)
    \/ \E i \in RebuildIds : rebuildMutationSettles(i)

(***************************************************************************)
(* Chat SDK: APIService                                                    *)
(*                                                                         *)
(* Two sources of the service exist: part_003 (payload clamping, parameter *)
(* checks, validateResponse) and part_004 (none of these).  request,       *)
(* isRetryableError and SDKError are the same text in both.                *)
(*                                                                         *)
(* JavaScript values are modelled by what the code reads of them: a number *)
(* that may be missing is <<n>> or <<>> (undefined), a string that may be  *)
(* missing is the string or Absent; an error is                            *)
(* its class, name, code and message; a response body is the fields that   *)
(* request and validateResponse look at.  The Chinese message texts of the *)
(* source are given in English.  Requests are well typed (ChatRequest).    *)
(***************************************************************************)

\* undefined, where a string is expected
Absent == "absent"

\* undefined, where a number is expected; a given number n is <<n>>
NoNumber == <<>>

Given(n) == <<n>>

Min(a, b) == IF a < b THEN a ELSE b

Max(a, b) == IF a > b THEN a ELSE b

\* x || d for a number x that may be undefined: 0 is falsy too.
NumberOr(x, d) == IF x = NoNumber THEN d ELSE IF x[1] = 0 THEN d ELSE x[1]

\* s || d for a string s that may be undefined: '' is falsy too.
StringOr(s, d) == IF s = Absent \/ s = "" THEN d ELSE s

TopKDefault == 10

TopKMin == 1

TopKMax == 20

LimitDefault == 50

LimitMin == 1

LimitMax == 100

RetryAttemptsDefault == 3

\* How far beyond the documented ranges the numeric inputs of the model go.
InputMargin == 3

\* Largest retryAttempts given to configure.
MaxRetryInput == 4

TopKInputs ==
    {NoNumber} \cup {Given(n) : n \in (TopKMin - InputMargin)..(TopKMax + InputMargin)}

LimitInputs ==
    {NoNumber}
    \cup {Given(n) : n \in (LimitMin - InputMargin)..(LimitMin + InputMargin)}
    \cup {Given(n) : n \in (LimitMax - InputMargin)..(LimitMax + InputMargin)}

RetryInputs == {NoNumber} \cup {Given(n) : n \in 0..MaxRetryInput}

\* ---- errors ----

NoError == [sdk |-> FALSE, name |-> "none", code |-> Absent, message |-> Absent]

\* new SDKError(code, message): name is 'SDKError'.
SDKError(code, message) ==
    [sdk |-> TRUE, name |-> "SDKError", code |-> code, message |-> message]

\* An error that is no SDKError: new Error(message), a TypeError, a
\* DOMException.
JsError(name, message) ==
    [sdk |-> FALSE, name |-> name, code |-> Absent, message |-> message]

\* What fetch rejects with: the abort of the timeout timer, the network
\* failure texts of Chromium, Firefox and Safari, and JSON.stringify or fetch
\* refusing the request.
AbortError == JsError("AbortError", "The user aborted a request.")

FetchErrors ==
    { AbortError,
      JsError("TypeError", "Failed to fetch"),
      JsError("TypeError", "NetworkError when attempting to fetch resource."),
      JsError("TypeError", "Load failed") }

\* new Error(`HTTP ${response.status}: ${response.statusText}`)
HttpErrors ==
    { JsError("Error", "HTTP 500: Internal Server Error"),
      JsError("Error", "HTTP 404: Not Found") }

JsonSyntaxError == JsError("SyntaxError", "Unexpected token < in JSON at position 0")

NullBodyError == JsError("TypeError", "Cannot read properties of null (reading 'success')")

NullProductError == JsError("TypeError", "Cannot read properties of null (reading 'sku')")

\* message.includes('Failed to fetch')
IncludesFailedToFetch(message) ==
    message \in {"Failed to fetch", "Failed to fetch upstream"}

\* message.includes('NetworkError')
IncludesNetworkError(message) ==
    message \in {"NetworkError when attempting to fetch resource."}

\* The mutant of isRetryableError: the SDKError test is missing.
isRetryableError_NoSdkTest(error) ==
    IF error.name = "AbortError" THEN FALSE
    ELSE IF IncludesFailedToFetch(error.message) THEN TRUE
    ELSE IncludesNetworkError(error.message)

isRetryableError(error) ==
    IF error.name = "AbortError" THEN FALSE
    ELSE IF error.sdk THEN FALSE
    ELSE IF IncludesFailedToFetch(error.message) THEN TRUE
    ELSE IncludesNetworkError(error.message)

\* The mutant of convertError: an error that is neither a timeout nor
\* 'Failed to fetch' is thrown on as it is.
convertError_NoFallback(error) ==
    IF error.sdk THEN error
    ELSE IF error.name = "AbortError"
         THEN SDKError("TIMEOUT_ERROR", "request timed out, check the network connection")
    ELSE IF IncludesFailedToFetch(error.message)
         THEN SDKError("NETWORK_ERROR", "network connection failed, check the network settings")
    ELSE error

\* The end of request's catch block: what is thrown to the caller.
convertError(error) ==
    IF error.sdk THEN error
    ELSE IF error.name = "AbortError"
         THEN SDKError("TIMEOUT_ERROR", "request timed out, check the network connection")
    ELSE IF IncludesFailedToFetch(error.message)
         THEN SDKError("NETWORK_ERROR", "network connection failed, check the network settings")
    ELSE SDKError("UNKNOWN_ERROR", StringOr(error.message, "unknown error"))

\* ---- response bodies ----

\* Longest products array of a response.
MaxProducts == 2

\* Most entries of the evidence array of a response.
MaxEvidence == 1

Replies == {"reply one", "reply two"}

\* A product of a response: sku and title ('' when missing), whether price is
\* a number, whether the array element is null.
GoodProducts ==
    { [sku |-> "sku1", title |-> "shoe", priceIsNumber |-> TRUE, isNull |-> FALSE],
      [sku |-> "sku2", title |-> "boot", priceIsNumber |-> TRUE, isNull |-> FALSE] }

BadProducts ==
    { [sku |-> "", title |-> "shoe", priceIsNumber |-> TRUE, isNull |-> FALSE],
      [sku |-> "sku1", title |-> "", priceIsNumber |-> TRUE, isNull |-> FALSE],
      [sku |-> "sku1", title |-> "shoe", priceIsNumber |-> FALSE, isNull |-> FALSE],
      [sku |-> "", title |-> "", priceIsNumber |-> FALSE, isNull |-> TRUE] }

GoodLists == UNION {[1..n -> GoodProducts] : n \in 0..MaxProducts}

AllLists == UNION {[1..n -> GoodProducts \cup BadProducts] : n \in 0..MaxProducts}

\* What response.json() gives.  json: "invalid" (no JSON text), "null",
\* "scalar" (a number, a string, true) or "object".  Of an object: success
\* ("true", "false" or Absent), error.code and error.message, reply (Absent
\* when it is no string), products and evidence (with whether each is an
\* array; evidence is its number of entries), and whether traceId, sessionId
\* and timestamp have their types.
NoBody ==
    [json |-> "none", success |-> Absent, errCode |-> Absent, errMessage |-> Absent,
     reply |-> Absent, productsIsArray |-> FALSE, products |-> <<>>,
     evidenceIsArray |-> FALSE, evidence |-> 0,
     traceIdOk |-> FALSE, sessionIdOk |-> FALSE, timestampOk |-> FALSE]

EmptyObjectBody == [NoBody EXCEPT !.json = "object"]

ShapedBody(success, reply, products, evidence) ==
    [json |-> "object", success |-> success, errCode |-> Absent, errMessage |-> Absent,
     reply |-> reply, productsIsArray |-> TRUE, products |-> products,
     evidenceIsArray |-> TRUE, evidence |-> evidence,
     traceIdOk |-> TRUE, sessionIdOk |-> TRUE, timestampOk |-> TRUE]

\* Bodies of the documented shape, with and without the success field.
ValidBodies ==
    { ShapedBody(su, r, ps, ev) :
        su \in {"true", Absent}, r \in Replies, ps \in GoodLists, ev \in 0..MaxEvidence }

BaseBody == ShapedBody("true", "reply one", <<>>, 1)

\* Bodies that miss the documented shape in one place.
MisshapenBodies ==
    { [BaseBody EXCEPT !.products = ps] : ps \in AllLists \ GoodLists }
    \cup { [BaseBody EXCEPT !.reply = Absent],
           [BaseBody EXCEPT !.productsIsArray = FALSE],
           [BaseBody EXCEPT !.evidenceIsArray = FALSE, !.evidence = 0],
           [BaseBody EXCEPT !.traceIdOk = FALSE],
           [BaseBody EXCEPT !.sessionIdOk = FALSE],
           [BaseBody EXCEPT !.timestampOk = FALSE],
           EmptyObjectBody,
           [NoBody EXCEPT !.json = "scalar"] }

\* success: false, with every combination of error.code and error.message
\* missing, empty or given.
BusinessErrorBodies ==
    { [EmptyObjectBody EXCEPT !.success = "false", !.errCode = c, !.errMessage = m] :
        c \in {Absent, "", "RATE_LIMITED"},
        m \in {Absent, "", "quota exceeded", "Failed to fetch upstream"} }

Bodies ==
    ValidBodies \cup MisshapenBodies \cup BusinessErrorBodies
    \cup { [NoBody EXCEPT !.json = "invalid"], [NoBody EXCEPT !.json = "null"] }

\* The for loop of validateResponse over the first n products: "true" (all
\* pass), "false" (one fails the test) or "throws" (one is null, so that
\* product.sku throws), whichever comes first.
RECURSIVE productsCheck(_, _)
productsCheck(products, i) ==
    IF i > Len(products) THEN "true"
    ELSE IF products[i].isNull THEN "throws"
    ELSE IF products[i].sku = "" \/ products[i].title = "" \/ ~products[i].priceIsNumber
         THEN "false"
    ELSE productsCheck(products, i + 1)

\* The mutant of validateResponse: the products are not looked at.
validateResponse_NoProductCheck(response) ==
    IF response.json # "object" THEN "false"
    ELSE IF response.reply = Absent THEN "false"
    ELSE IF ~response.productsIsArray THEN "false"
    ELSE IF ~response.evidenceIsArray THEN "false"
    ELSE IF ~response.traceIdOk THEN "false"
    ELSE IF ~response.sessionIdOk THEN "false"
    ELSE IF ~response.timestampOk THEN "false"
    ELSE "true"

\* validateResponse(response) of part_003.
validateResponse(response) ==
    IF response.json # "object" THEN "false"
    ELSE IF response.reply = Absent THEN "false"
    ELSE IF ~response.productsIsArray THEN "false"
    ELSE IF ~response.evidenceIsArray THEN "false"
    ELSE IF ~response.traceIdOk THEN "false"
    ELSE IF ~response.sessionIdOk THEN "false"
    ELSE IF ~response.timestampOk THEN "false"
    ELSE productsCheck(response.products, 1)

\* ---- requests and payloads ----

\* Message texts and String.prototype.trim on them.
Texts == {"", " ", "hi", " hi "}

Trim(s) == IF s = " " THEN "" ELSE IF s = " hi " THEN "hi" ELSE s

\* Session ids: 0 is the empty string, n > 0 the n-th generated id (which
\* has no blanks to trim).
EmptySessionId == 0

\* history.map(msg => ({role, content})) of a ChatMessage list: products are dropped.
RECURSIVE historyPayload(_)
historyPayload(history) ==
    IF history = <<>> THEN <<>>
    ELSE <<[role |-> Head(history).role, content |-> Head(history).content]>>
         \o historyPayload(Tail(history))

NoRequest ==
    [sessionId |-> EmptySessionId, message |-> "", history |-> <<>>,
     topK |-> NoNumber, limit |-> NoNumber]

NoPayload ==
    [sessionId |-> EmptySessionId, message |-> "", history |-> <<>>, topK |-> 0, limit |-> 0]

\* The mutant of sendMessagePayload003: the lower clamp is missing.
sendMessagePayload003_NoLowerClamp(request) ==
    [sessionId |-> request.sessionId,
     message |-> Trim(request.message),
     history |-> historyPayload(request.history),
     topK |-> Min(NumberOr(request.topK, TopKDefault), TopKMax),
     limit |-> 0]

\* payload of sendMessage, part_003.
sendMessagePayload003(request) ==
    [sessionId |-> request.sessionId,
     message |-> Trim(request.message),
     history |-> historyPayload(request.history),
     topK |-> Min(Max(NumberOr(request.topK, TopKDefault), TopKMin), TopKMax),
     limit |-> 0]

\* payload of sendMessage, part_004.
sendMessagePayload004(request) ==
    [sessionId |-> request.sessionId,
     message |-> request.message,
     history |-> historyPayload(request.history),
     topK |-> NumberOr(request.topK, TopKDefault),
     limit |-> 0]

\* The limit query parameter of getSessionHistory, part_003 (default 50).
historyLimit003(limit) ==
    Min(Max(IF limit = NoNumber THEN LimitDefault ELSE limit[1], LimitMin), LimitMax)

\* The limit query parameter of getSessionHistory, part_004.
historyLimit004(limit) == IF limit = NoNumber THEN LimitDefault ELSE limit[1]

\* What an operation puts on the wire.
payloadOf(op, request) ==
    IF op = "sendMessage"
    THEN IF apiRevision = "part_003" THEN sendMessagePayload003(request)
                                     ELSE sendMessagePayload004(request)
    ELSE IF op = "getSessionHistory"
    THEN [NoPayload EXCEPT !.sessionId = request.sessionId,
                           !.limit = IF apiRevision = "part_003"
                                     THEN historyLimit003(request.limit)
                                     ELSE historyLimit004(request.limit)]
    ELSE [NoPayload EXCEPT !.sessionId = request.sessionId]

\* The mutant of rejectsParams: clearSession does not test its sessionId.
rejectsParams_HistoryOnly(op, request) ==
    /\ apiRevision = "part_003"
    /\ op = "getSessionHistory"
    /\ request.sessionId = EmptySessionId

\* if (!sessionId) throw new SDKError('INVALID_PARAMS', ...): part_003 only.
rejectsParams(op, request) ==
    /\ apiRevision = "part_003"
    /\ op \in {"getSessionHistory", "clearSession"}
    /\ request.sessionId = EmptySessionId

\* ---- one API call ----

\* op: the method called; caller: "widget" or "direct"; pc: "idle",
\* "fetching" (await fetch), "reading" (await response.json()), "delay" (await
\* this.delay before the retry), "returned", "thrown"; attempt: request's
\* attempt parameter; body: what response.json() gave in this attempt; error:
\* what the call threw; cause: the error caught before the last retry;
\* timers: the timeout timers (setTimeout(() => controller.abort(), ...)) of
\* this call's attempts that are neither cleared nor fired.
NoCall ==
    [op |-> "none", caller |-> "none", pc |-> "idle", attempt |-> 0,
     request |-> NoRequest, payload |-> NoPayload, body |-> NoBody, error |-> NoError,
     cause |-> NoError, timers |-> 0]

Ops == {"sendMessage", "getSessionHistory", "clearSession"}

\* The catch block of sendMessage, part_003.
sendMessageCatch(error) ==
    IF error.sdk THEN error
    ELSE SDKError("REQUEST_FAILED",
                  "request failed: " \o StringOr(error.message, "unknown error"))

\* request has thrown error to the method that called it.
opThrows(c, error) ==
    [c EXCEPT !.pc = "thrown",
              !.error = IF c.op = "sendMessage" /\ apiRevision = "part_003"
                        THEN sendMessageCatch(error)
                        ELSE error]

\* request has returned result to the method that called it: sendMessage of
\* part_003 validates it, every other method returns it as it is.
opReturns(c, result) ==
    IF c.op = "sendMessage" /\ apiRevision = "part_003"
    THEN CASE validateResponse(result) = "true" -> [c EXCEPT !.pc = "returned"]
           [] validateResponse(result) = "false" ->
                [c EXCEPT !.pc = "thrown",
                          !.error = sendMessageCatch(
                              SDKError("INVALID_RESPONSE",
                                       "the data returned by the server has a wrong format"))]
           [] OTHER ->
                [c EXCEPT !.pc = "thrown", !.error = sendMessageCatch(NullProductError)]
    ELSE [c EXCEPT !.pc = "returned"]

\* The catch block of request: retry after a delay, or throw the converted
\* error.
requestCatch(c, error) ==
    IF c.attempt < retryAttempts /\ isRetryableError(error)
    THEN [c EXCEPT !.pc = "delay", !.cause = error]
    ELSE opThrows(c, convertError(error))

\* throw new SDKError(result.error?.code || 'API_ERROR',
\*                    result.error?.message || <default>, result.error)
businessError(result) ==
    SDKError(StringOr(result.errCode, "API_ERROR"),
             StringOr(result.errMessage, "request handling failed"))

\* A method of apiService is called.
startCall(caller, op, request) ==
    IF rejectsParams(op, request)
    THEN [NoCall EXCEPT !.op = op, !.caller = caller, !.pc = "thrown",
                        !.request = request,
                        !.error = SDKError("INVALID_PARAMS", "the session id must not be empty")]
    ELSE [NoCall EXCEPT !.op = op, !.caller = caller, !.pc = "fetching", !.attempt = 1,
                        !.request = request, !.payload = payloadOf(op, request),
                        !.timers = 1]

\* configure(baseURL, timeout, retryAttempts)
configure(attempts) ==
    /\ retryAttempts' = NumberOr(attempts, RetryAttemptsDefault)
    /\ UNCHANGED <<apiRevision, call, rebuildVars, widgetVars, uploadVars, coreVars, scriptVars, sdkVars>>

\* fetch rejects with AbortError when the attempt's timer has fired; after
\* any other rejection the timer is still pending, as clearTimeout follows
\* the await.
timersAfterReject(timers, error) ==
    IF error.name = "AbortError" THEN timers - 1 ELSE timers

\* fetch rejects: the timeout aborted it, or the network failed.
fetchRejects(error) ==
    /\ call.pc = "fetching"
    /\ call' = requestCatch([call EXCEPT !.timers = timersAfterReject(@, error)], error)
    /\ UNCHANGED <<apiRevision, retryAttempts, rebuildVars, widgetVars, uploadVars, coreVars, scriptVars, sdkVars>>

\* fetch resolves with a response that is not ok.
fetchRespondsNotOk(error) ==
    /\ call.pc = "fetching"
    /\ call' = requestCatch([call EXCEPT !.timers = @ - 1], error)
    /\ UNCHANGED <<apiRevision, retryAttempts, rebuildVars, widgetVars, uploadVars, coreVars, scriptVars, sdkVars>>

\* fetch resolves with an ok response; its body is read next.
fetchRespondsOk ==
    /\ call.pc = "fetching"
    /\ call' = [call EXCEPT !.pc = "reading", !.timers = @ - 1]
    /\ UNCHANGED <<apiRevision, retryAttempts, rebuildVars, widgetVars, uploadVars, coreVars, scriptVars, sdkVars>>

\* response.json() settles, and request goes on to its end.
bodyRead(body) ==
    /\ call.pc = "reading"
    /\ LET c == [call EXCEPT !.body = body]
       IN  call' = IF body.json = "invalid" THEN requestCatch(c, JsonSyntaxError)
                   ELSE IF body.json = "null" THEN requestCatch(c, NullBodyError)
                   ELSE IF body.success = "false" THEN requestCatch(c, businessError(body))
                   ELSE opReturns(c, body)
    /\ UNCHANGED <<apiRevision, retryAttempts, rebuildVars, widgetVars, uploadVars, coreVars, scriptVars, sdkVars>>

\* The delay before a retry is over: request calls itself with attempt + 1.
retryDelayElapsed ==
    /\ call.pc = "delay"
    /\ call' = [call EXCEPT !.pc = "fetching", !.attempt = @ + 1, !.body = NoBody,
                            !.timers = @ + 1]
    /\ UNCHANGED <<apiRevision, retryAttempts, rebuildVars, widgetVars, uploadVars, coreVars, scriptVars, sdkVars>>

\* The timeout of an earlier attempt elapses: its timer fires and aborts a
\* controller whose fetch has settled, which changes nothing else.
staleTimerFires ==
    /\ call.timers > (IF call.pc = "fetching" THEN 1 ELSE 0)
    /\ call' = [call EXCEPT !.timers = @ - 1]
    /\ UNCHANGED <<apiRevision, retryAttempts, rebuildVars, widgetVars, uploadVars, coreVars, scriptVars, sdkVars>>

\* ---- direct callers of apiService ----

DirectRequests(op) ==
    IF op = "sendMessage"
    THEN { [NoRequest EXCEPT !.sessionId = 1, !.message = m, !.topK = k] :
             m \in {"hi", " hi "}, k \in TopKInputs }
    ELSE IF op = "getSessionHistory"
    THEN { [NoRequest EXCEPT !.sessionId = sid, !.limit = l] :
             sid \in {EmptySessionId, 1}, l \in LimitInputs }
    ELSE { [NoRequest EXCEPT !.sessionId = sid] : sid \in {EmptySessionId, 1} }

directCall(op, request) ==
    /\ call.pc = "idle"
    /\ call' = startCall("direct", op, request)
    /\ UNCHANGED <<apiRevision, retryAttempts, rebuildVars, widgetVars, uploadVars, coreVars, scriptVars, sdkVars>>

\* The caller's await has the result or the error.
directCallEnds ==
    /\ call.caller = "direct"
    /\ call.pc \in {"returned", "thrown"}
    /\ call' = NoCall
    /\ UNCHANGED <<apiRevision, retryAttempts, rebuildVars, widgetVars, uploadVars, coreVars, scriptVars, sdkVars>>

InitApi(revision) ==
    /\ apiRevision = revision
    /\ retryAttempts = RetryAttemptsDefault
    /\ call = NoCall

NextApi ==
    \/ \E attempts \in RetryInputs : configure(attempts)
    \/ \E op \in Ops : \E request \in DirectRequests(op) : directCall(op, request)
    \/ \E error \in FetchErrors : fetchRejects(error)
    \/ \E error \in HttpErrors : fetchRespondsNotOk(error)
    \/ fetchRespondsOk
    \/ \E body \in Bodies : bodyRead(body)
    \/ retryDelayElapsed
    \/ directCallEnds

\* APIService with the clock of its timeout timers; one caller suffices.
NextApiTimers ==
    \/ \E attempts \in RetryInputs : configure(attempts)
    \/ \E request \in DirectRequests("clearSession") : directCall("clearSession", request)
    \/ \E error \in FetchErrors : fetchRejects(error)
    \/ \E error \in HttpErrors : fetchRespondsNotOk(error)
    \/ fetchRespondsOk
    \/ \E body \in Bodies : bodyRead(body)
    \/ retryDelayElapsed
    \/ staleTimerFires
    \/ directCallEnds

(***************************************************************************)
(* Chat SDK: ChatWidget                                                    *)
(***************************************************************************)

\* Longest message list before a send.
MaxMessages == 2

\* Number of session ids generateSessionId hands out.
MaxSessions == 2

HistoryDefault == 10

MaxHistoryInputs == {0, 1, 2}

WidgetTopK == 10

\* Most requests of the widget the model lets overlap.
MaxInFlight == 2

welcomeMessage == [role |-> "assistant", content |-> "welcome", products |-> <<>>]

errorMessage == [role |-> "assistant", content |-> "serverError", products |-> <<>>]

userMessageOf(text) == [role |-> "user", content |-> text, products |-> <<>>]

aiMessageOf(response) ==
    [role |-> "assistant", content |-> response.reply, products |-> response.products]

\* Array.prototype.slice(start) with one argument.
slice(seq, start) ==
    LET from == IF start < 0 THEN Max(Len(seq) + start, 0) ELSE Min(start, Len(seq))
    IN  SubSeq(seq, from + 1, Len(seq))

\* The WidgetState a render sees, as far as handleSendMessage reads it.
WidgetState(loading, msgs, session) ==
    [isLoading |-> loading, messages |-> msgs, sessionId |-> session]

\* The mutant of maySend: state.isLoading is not tested.
maySend_NoLoadingTest(message) == Trim(message) # ""

\* if (!message.trim() || state.isLoading) return, with the state of the
\* render that made the callback.
maySend(message) == Trim(message) # "" /\ ~rendered.isLoading

\* state.messages.slice(-config.maxHistoryLength || -10): -0 is falsy.
historyOf(msgs) ==
    slice(msgs, IF maxHistoryLength = 0 THEN 0 - HistoryDefault ELSE 0 - maxHistoryLength)

InitWidget(welcomes, historyLengths) ==
    /\ maxHistoryLength \in historyLengths
    /\ welcome \in welcomes
    /\ messages = IF welcome THEN <<welcomeMessage>> ELSE <<>>
    /\ isLoading = FALSE
    /\ sessionId = 1
    /\ received = NoBody
    /\ rendered = WidgetState(isLoading, messages, sessionId)
    /\ inFlight = 0

\* handleSendMessage(message) up to its await: the user message is appended
\* to the current list (prev.messages), isLoading is set and
\* apiService.sendMessage is called with the session id and the history of
\* the render that made the callback (state.sessionId, state.messages).  The
\* call is made in a click or key event, whose updates React renders before
\* the next event.
handleSendMessage(message) ==
    /\ maySend(message)
    /\ call.caller # "direct"
    /\ inFlight < MaxInFlight
    /\ Len(messages) <= MaxMessages
    /\ messages' = Append(messages, userMessageOf(Trim(message)))
    /\ isLoading' = TRUE
    /\ inFlight' = inFlight + 1
    /\ rendered' = WidgetState(isLoading', messages', sessionId)
    /\ call' = startCall("widget", "sendMessage",
                  [NoRequest EXCEPT !.sessionId = rendered.sessionId,
                                    !.message = Trim(message),
                                    !.history = historyOf(rendered.messages),
                                    !.topK = Given(WidgetTopK)])
    /\ UNCHANGED <<apiRevision, retryAttempts, maxHistoryLength, welcome, sessionId, received,
                   rebuildVars, uploadVars, coreVars, scriptVars, sdkVars>>

\* handleSendMessage after its await: the reply is appended when the
\* response's success is truthy, the error text in every other case.  The
\* update is made outside any event and rendered later.
handleSendMessageResumes ==
    /\ call.caller = "widget"
    /\ call.pc \in {"returned", "thrown"}
    /\ IF call.pc = "returned" /\ call.body.success = "true"
       THEN /\ messages' = Append(messages, aiMessageOf(call.body))
            /\ received' = call.body
       ELSE /\ messages' = Append(messages, errorMessage)
            /\ UNCHANGED received
    /\ isLoading' = FALSE
    /\ inFlight' = inFlight - 1
    /\ call' = NoCall
    /\ UNCHANGED <<apiRevision, retryAttempts, maxHistoryLength, welcome, sessionId, rendered,
                   rebuildVars, uploadVars, coreVars, scriptVars, sdkVars>>

\* handleClearChat
handleClearChat ==
    /\ sessionId < MaxSessions
    /\ messages' = IF welcome THEN <<welcomeMessage>> ELSE <<>>
    /\ sessionId' = sessionId + 1
    /\ rendered' = WidgetState(isLoading, messages', sessionId')
    /\ UNCHANGED <<apiVars, maxHistoryLength, welcome, isLoading, received, inFlight, rebuildVars,
                   uploadVars, coreVars, scriptVars, sdkVars>>

\* The component is rendered again with another config.welcome: the welcome
\* effect (dependencies [config.welcome]) runs again and, for a welcome text
\* that is not empty, sets messages to [welcomeMessage]; the render that
\* precedes the effect has seen the state as it was.
welcomeEffect ==
    /\ welcome' = ~welcome
    /\ messages' = IF welcome' THEN <<welcomeMessage>> ELSE messages
    /\ rendered' = WidgetState(isLoading, messages, sessionId)
    /\ UNCHANGED <<apiVars, maxHistoryLength, isLoading, sessionId, received, inFlight, rebuildVars,
                   uploadVars, coreVars, scriptVars, sdkVars>>

\* React renders the component with the updates made outside events.
render ==
    /\ rendered # WidgetState(isLoading, messages, sessionId)
    /\ rendered' = WidgetState(isLoading, messages, sessionId)
    /\ UNCHANGED <<apiVars, maxHistoryLength, welcome, messages, isLoading, sessionId, received,
                   inFlight, rebuildVars, uploadVars, coreVars, scriptVars, sdkVars>>

NextChat ==
    \/ \E message \in Texts : handleSendMessage(message)
    \/ handleSendMessageResumes
    \/ handleClearChat
    \/ render
    \/ \E error \in FetchErrors : fetchRejects(error)
    \/ \E error \in HttpErrors : fetchRespondsNotOk(error)
    \/ fetchRespondsOk
    \/ \E body \in Bodies : bodyRead(body)
    \/ retryDelayElapsed

\* The widget as a component of a host application, which may render it
\* again with another welcome text, in front of a server that answers with
\* a well-formed body or cannot be reached.
NextChatProps ==
    \/ \E message \in Texts : handleSendMessage(message)
    \/ handleSendMessageResumes
    \/ handleClearChat
    \/ render
    \/ welcomeEffect
    \/ \E error \in FetchErrors : fetchRejects(error)
    \/ fetchRespondsOk
    \/ bodyRead(BaseBody)
    \/ retryDelayElapsed

(***************************************************************************)
(* Admin page FileUpload (Settings.tsx, lines 685 on)                      *)
(***************************************************************************)

\* Number of uploadMutation.mutate calls a run of the model makes.
MaxUploads == 2

\* Most files of one drop or selection.
MaxFilesPerUpload == 2

\* for (let progress = 0; progress <= 100; progress += 10)
ProgressMax == 100

ProgressStep == 10

UploadIds == 1..MaxUploads

\* FileInfo.processing_status
FileInfoStatus == {"pending", "processing", "completed", "failed"}

\* UploadProgress.status
UploadStatus == {"uploading", "processing", "completed", "failed"}

\* The file list the files query resolves to (queryFn returns fixed data).
files ==
    << [id |-> "file_1", processing_status |-> "completed"],
       [id |-> "file_2", processing_status |-> "processing"],
       [id |-> "file_3", processing_status |-> "failed"] >>

\* A mutation that was never started.
NoUpload == [files |-> <<>>, index |-> 0, pc |-> "none", progress |-> 0]

\* const uploadItem = {file, progress: 0, status: 'uploading'}
uploadItem(file) == [file |-> file, progress |-> 0, status |-> "uploading", error |-> ""]

\* prev.map(item => item.file === file ? {...item, progress} : item)
RECURSIVE setProgress(_, _, _)
setProgress(prev, file, progress) ==
    IF prev = <<>> THEN <<>>
    ELSE <<IF Head(prev).file = file THEN [Head(prev) EXCEPT !.progress = progress]
                                     ELSE Head(prev)>>
         \o setProgress(Tail(prev), file, progress)

\* The mutant of setStatus: the test item.file === file is missing, every
\* item gets the status.
RECURSIVE setStatus_EveryItem(_, _, _, _)
setStatus_EveryItem(prev, file, status, error) ==
    IF prev = <<>> THEN <<>>
    ELSE <<[Head(prev) EXCEPT !.status = status, !.error = error]>>
         \o setStatus_EveryItem(Tail(prev), file, status, error)

\* prev.map(item => item.file === file ? {...item, status, error} : item)
RECURSIVE setStatus(_, _, _, _)
setStatus(prev, file, status, error) ==
    IF prev = <<>> THEN <<>>
    ELSE <<IF Head(prev).file = file
           THEN [Head(prev) EXCEPT !.status = status, !.error = error]
           ELSE Head(prev)>>
         \o setStatus(Tail(prev), file, status, error)

InitUpload ==
    /\ uploadProgress = <<>>
    /\ uploads = [u \in UploadIds |-> NoUpload]
    /\ clearTimers = 0
    /\ nextFile = 1

\* A File object: acceptable says whether its type is one of the accepted
\* formats and its size within max_file_size_mb.
File(id, acceptable) == [id |-> id, acceptable |-> acceptable]

\* handleDrop / handleFileSelect with n files, of which those at the
\* positions bad are of an unsupported type or too large: nothing happens
\* for no file; otherwise uploadMutation.mutate starts mutationFn, which adds
\* the first file's item and waits for the first progress timer.  Every drop
\* or selection brings File objects of its own.
handleFileSelect(n, bad) ==
    /\ IF n = 0
       THEN UNCHANGED uploadVars
       ELSE \E u \in UploadIds :
              /\ uploads[u].pc = "none"
              /\ \A v \in UploadIds : v < u => uploads[v].pc # "none"
              /\ uploads' = [uploads EXCEPT ![u] =
                    [files |-> [k \in 1..n |-> File(nextFile + k - 1, k \notin bad)],
                     index |-> 1, pc |-> "uploading", progress |-> 0]]
              /\ uploadProgress' =
                    Append(uploadProgress, uploadItem(File(nextFile, 1 \notin bad)))
              /\ nextFile' = nextFile + n
              /\ UNCHANGED clearTimers
    /\ UNCHANGED <<rebuildVars, apiVars, widgetVars, coreVars, scriptVars, sdkVars>>

\* A 100 ms timer of the progress loop fires: the progress is written; after
\* the last round the status becomes 'processing' and the 1000 ms wait begins.
progressTimerFires(u) ==
    /\ uploads[u].pc = "uploading"
    /\ LET file == uploads[u].files[uploads[u].index]
           shown == setProgress(uploadProgress, file, uploads[u].progress)
       IN  IF uploads[u].progress + ProgressStep <= ProgressMax
           THEN /\ uploadProgress' = shown
                /\ uploads' = [uploads EXCEPT ![u].progress = @ + ProgressStep]
           ELSE /\ uploadProgress' = setStatus(shown, file, "processing", "")
                /\ uploads' = [uploads EXCEPT ![u].pc = "processing"]
    /\ UNCHANGED <<clearTimers, nextFile, rebuildVars, apiVars, widgetVars, coreVars, scriptVars, sdkVars>>

\* The 1000 ms timer fires: Math.random() decides between 'completed' and
\* 'failed'; then the next file's item is added, or mutationFn returns and
\* onSuccess starts the 3 s timer that clears the list.
processingTimerFires(u, success) ==
    /\ uploads[u].pc = "processing"
    /\ LET file == uploads[u].files[uploads[u].index]
           shown == setStatus(uploadProgress, file,
                              IF success THEN "completed" ELSE "failed",
                              IF success THEN "" ELSE "processing failed")
       IN  IF uploads[u].index < Len(uploads[u].files)
           THEN /\ uploadProgress' =
                      Append(shown, uploadItem(uploads[u].files[uploads[u].index + 1]))
                /\ uploads' = [uploads EXCEPT ![u].index = @ + 1,
                                              ![u].pc = "uploading",
                                              ![u].progress = 0]
                /\ UNCHANGED clearTimers
           ELSE /\ uploadProgress' = shown
                /\ uploads' = [uploads EXCEPT ![u].pc = "done"]
                /\ clearTimers' = clearTimers + 1
    /\ UNCHANGED <<nextFile, rebuildVars, apiVars, widgetVars, coreVars, scriptVars, sdkVars>>

\* setTimeout(() => setUploadProgress([]), 3000) of onSuccess fires.
clearTimerFires ==
    /\ clearTimers > 0
    /\ uploadProgress' = <<>>
    /\ clearTimers' = clearTimers - 1
    /\ UNCHANGED <<uploads, nextFile, rebuildVars, apiVars, widgetVars, coreVars, scriptVars, sdkVars>>

NextUpload ==
    \/ \E n \in 0..MaxFilesPerUpload : \E bad \in SUBSET (1..n) : handleFileSelect(n, bad)
    \/ \E u \in UploadIds : progressTimerFires(u)
    \/ \E u \in UploadIds, success \in BOOLEAN : processingTimerFires(u, success)
    \/ clearTimerFires

(***************************************************************************)
(* Server core: Ingestion Pipeline                                         *)
(*                                                                         *)
(* The server's code is not among the sources; this part follows section   *)
(* 4.1 of the specification (with sections 3, 5 and 7).  A document is     *)
(* validated, becomes pending, then processing; its chunks are embedded    *)
(* (each embedding retried up to a fixed number of attempts) and written   *)
(* to the vector store one by one; its entities are upserted into the      *)
(* graph store, before, between or after the chunk writes; it is completed *)
(* when both are done.  A failure after partial writes is followed by      *)
(* compensating deletes, after which the document is failed.  A terminal   *)
(* document may be ingested again, as a new attempt.                       *)
(***************************************************************************)

DocIds == {"d1", "d2"}

\* Most chunks the splitter makes of one document.
MaxChunks == 2

\* Attempts of one embedding request ('a fixed attempt cap', e.g. 3).
EmbedAttemptCap == 3

\* Ingestion attempts per document in a run of the model.
MaxIngestAttempts == 2

DocumentStatus == {"pending", "processing", "completed", "failed"}

\* A document that was never uploaded.  n: its number of chunks; written: the
\* chunks of this attempt written so far; tries: failed attempts of the
\* embedding request in progress; phase: "none", "running", "compensating",
\* "ended"; failedAfter: the chunks that were written when the attempt failed.
NoDoc ==
    [status |-> "none", attempt |-> 0, n |-> 0, written |-> 0, tries |-> 0,
     vectorDone |-> FALSE, graphDone |-> FALSE, phase |-> "none",
     error |-> "", failedAfter |-> 0]

chunksOf(d) == {c \in vectorStore : c[1] = d}

InitIngest ==
    /\ docs = [d \in DocIds |-> NoDoc]
    /\ vectorStore = {}
    /\ graphStore = {}

\* The mutant of afterFailure: the failure ends the ingestion at once, without
\* compensating deletes.
afterFailure_NoCompensation(doc, error) ==
    [doc EXCEPT !.status = "failed", !.phase = "ended", !.error = error,
                !.failedAfter = doc.written]

\* A failure of the running ingestion: the error is recorded and the
\* compensating deletes begin.
afterFailure(doc, error) ==
    [doc EXCEPT !.phase = "compensating", !.error = error, !.failedAfter = doc.written]

\* The mutant of mayComplete: the graph write is not waited for.
mayComplete_VectorOnly(doc) ==
    doc.status = "processing" /\ doc.phase = "running" /\ doc.vectorDone

\* 'Only after both vector and graph writes succeed does status become
\* completed.'
mayComplete(doc) ==
    doc.status = "processing" /\ doc.phase = "running" /\ doc.vectorDone /\ doc.graphDone

\* A document is submitted.  One of a wrong type or size is rejected before
\* any state change; otherwise the Document is created, pending.  A document
\* whose last attempt has ended is ingested again: its chunks are deleted
\* and a new attempt begins.
ingest(d, n, acceptable) ==
    /\ docs[d].phase \in {"none", "ended"}
    /\ docs[d].attempt < MaxIngestAttempts
    /\ IF acceptable
       THEN /\ docs' = [docs EXCEPT ![d] =
                  [NoDoc EXCEPT !.status = "pending", !.attempt = docs[d].attempt + 1,
                                !.n = n, !.phase = "running"]]
            /\ vectorStore' = vectorStore \ chunksOf(d)
            /\ graphStore' = graphStore \ {d}
       ELSE UNCHANGED ingestVars
    /\ UNCHANGED <<query, indexManager, rebuildVars, apiVars, widgetVars, uploadVars, scriptVars, sdkVars>>

\* pending -> processing: the content is chunked.
startProcessing(d) ==
    /\ docs[d].status = "pending"
    /\ docs' = [docs EXCEPT ![d].status = "processing"]
    /\ UNCHANGED <<vectorStore, graphStore, query, indexManager, rebuildVars,
                   apiVars, widgetVars, uploadVars, scriptVars, sdkVars>>

\* The next chunk's embedding arrives and the chunk is written.
writeChunk(d) ==
    /\ docs[d].status = "processing" /\ docs[d].phase = "running"
    /\ docs[d].written < docs[d].n
    /\ vectorStore' = vectorStore \cup {<<d, docs[d].written + 1>>}
    /\ docs' = [docs EXCEPT ![d].written = @ + 1, ![d].tries = 0,
                            ![d].vectorDone = (docs[d].written + 1 = docs[d].n)]
    /\ UNCHANGED <<graphStore, query, indexManager, rebuildVars,
                   apiVars, widgetVars, uploadVars, scriptVars, sdkVars>>

\* The embedding provider fails: the request is retried, and after the last
\* attempt the document's ingestion fails.
embeddingFails(d) ==
    /\ docs[d].status = "processing" /\ docs[d].phase = "running"
    /\ docs[d].written < docs[d].n
    /\ docs' = [docs EXCEPT ![d] =
          IF docs[d].tries + 1 < EmbedAttemptCap
          THEN [docs[d] EXCEPT !.tries = @ + 1]
          ELSE afterFailure(docs[d], "embedding")]
    /\ UNCHANGED <<vectorStore, graphStore, query, indexManager, rebuildVars,
                   apiVars, widgetVars, uploadVars, scriptVars, sdkVars>>

\* The entities and relations of the document are upserted.
graphWrite(d) ==
    /\ docs[d].status = "processing" /\ docs[d].phase = "running"
    /\ ~docs[d].graphDone
    /\ graphStore' = graphStore \cup {d}
    /\ docs' = [docs EXCEPT ![d].graphDone = TRUE]
    /\ UNCHANGED <<vectorStore, query, indexManager, rebuildVars,
                   apiVars, widgetVars, uploadVars, scriptVars, sdkVars>>

\* The graph write fails for good.
graphWriteFails(d) ==
    /\ docs[d].status = "processing" /\ docs[d].phase = "running"
    /\ ~docs[d].graphDone
    /\ docs' = [docs EXCEPT ![d] = afterFailure(docs[d], "graph")]
    /\ UNCHANGED <<vectorStore, graphStore, query, indexManager, rebuildVars,
                   apiVars, widgetVars, uploadVars, scriptVars, sdkVars>>

\* One compensating delete; after the last one the document is failed.
compensate(d) ==
    /\ docs[d].phase = "compensating"
    /\ IF chunksOf(d) # {}
       THEN /\ \E c \in chunksOf(d) : vectorStore' = vectorStore \ {c}
            /\ UNCHANGED <<docs, graphStore>>
       ELSE /\ graphStore' = graphStore \ {d}
            /\ docs' = [docs EXCEPT ![d].status = "failed", ![d].phase = "ended"]
            /\ UNCHANGED vectorStore
    /\ UNCHANGED <<query, indexManager, rebuildVars, apiVars, widgetVars, uploadVars, scriptVars, sdkVars>>

\* Both writes are done: the document is completed.
complete(d) ==
    /\ mayComplete(docs[d])
    /\ docs' = [docs EXCEPT ![d].status = "completed", ![d].phase = "ended"]
    /\ UNCHANGED <<vectorStore, graphStore, query, indexManager, rebuildVars,
                   apiVars, widgetVars, uploadVars, scriptVars, sdkVars>>

NextIngest ==
    \/ \E d \in DocIds, n \in 1..MaxChunks, acceptable \in BOOLEAN : ingest(d, n, acceptable)
    \/ \E d \in DocIds : startProcessing(d)
    \/ \E d \in DocIds : writeChunk(d)
    \/ \E d \in DocIds : embeddingFails(d)
    \/ \E d \in DocIds : graphWrite(d)
    \/ \E d \in DocIds : graphWriteFails(d)
    \/ \E d \in DocIds : compensate(d)
    \/ \E d \in DocIds : complete(d)

(***************************************************************************)
(* Server core: Hybrid Retriever, Reranker / Fusion Engine, Response       *)
(* Assembler                                                               *)
(*                                                                         *)
(* Not among the sources either; this part follows sections 4.3 to 4.5 and *)
(* 5 of the specification.  The vector query and the graph expansion run   *)
(* independently and are joined before fusion.  A failing call of either   *)
(* store is retried up to a fixed number of attempts.  Scores are          *)
(* integers; a channel's min-max normalisation and the weighted sum        *)
(* are computed over a common denominator.  Where all scores of a channel  *)
(* are equal the specification leaves the normalised score open; here a    *)
(* candidate the channel returned then counts 1.                           *)
(***************************************************************************)

\* The products (documents) a candidate may refer to, and the recency of the
\* source document of each: no two are equally recent.
Refs == {"p1", "p2", "p3"}

Recency == [r \in Refs |-> CASE r = "p1" -> 2 [] r = "p2" -> 3 [] OTHER -> 1]

\* Largest raw score of a channel in the model.
MaxScore == 2

\* Largest topK asked for in the model.
MaxQueryTopK == 3

\* The configured maximum of topK ('e.g. 20'), as configured in the model.
ConfiguredMaxTopK == 2

\* Attempts of one vector-store or graph-store call ('bounded exponential
\* backoff, e.g. 3 attempts').
QueryAttemptCap == 3

\* finalScore = 0.6 vectorScoreNorm + 0.3 graphScoreNorm + 0.1 dualEvidenceBonus,
\* in tenths.
AlphaTenths == 6

BetaTenths == 3

GammaTenths == 1

\* What a channel may return: a score for each of some of the products.
Hits(scores) == UNION {[S -> scores] : S \in SUBSET Refs}

NoHits == [r \in {} |-> 0]

SetMax(S) == CHOOSE x \in S : \A y \in S : y <= x

SetMin(S) == CHOOSE x \in S : \A y \in S : x <= y

Range(f) == {f[x] : x \in DOMAIN f}

\* max - min of a channel's scores, 1 where that is 0 (or the channel is empty).
spread(hits) ==
    IF DOMAIN hits = {} THEN 1
    ELSE IF SetMax(Range(hits)) = SetMin(Range(hits)) THEN 1
    ELSE SetMax(Range(hits)) - SetMin(Range(hits))

\* The numerator of the normalised score of r over spread(hits).
normalised(hits, r) ==
    IF r \notin DOMAIN hits THEN 0
    ELSE IF SetMax(Range(hits)) = SetMin(Range(hits)) THEN 1
    ELSE hits[r] - SetMin(Range(hits))

dualEvidence(vectorHits, graphHits, r) == r \in DOMAIN vectorHits /\ r \in DOMAIN graphHits

\* 10 * spread(vectorHits) * spread(graphHits) * finalScore(r)
finalScore(vectorHits, graphHits, r) ==
    AlphaTenths * normalised(vectorHits, r) * spread(graphHits)
    + BetaTenths * normalised(graphHits, r) * spread(vectorHits)
    + GammaTenths * (IF dualEvidence(vectorHits, graphHits, r) THEN 1 ELSE 0)
        * spread(vectorHits) * spread(graphHits)

\* Tie-break order: final score desc, dual evidence, recency of the source.
ranksBefore(vectorHits, graphHits, a, b) ==
    LET fa == finalScore(vectorHits, graphHits, a)
        fb == finalScore(vectorHits, graphHits, b)
        da == dualEvidence(vectorHits, graphHits, a)
        db == dualEvidence(vectorHits, graphHits, b)
    IN  \/ fa > fb
        \/ fa = fb /\ da /\ ~db
        \/ fa = fb /\ da = db /\ Recency[a] > Recency[b]

\* The candidates S in ranking order.
RECURSIVE ranked(_, _, _)
ranked(vectorHits, graphHits, S) ==
    IF S = {} THEN <<>>
    ELSE LET best == CHOOSE a \in S :
                        \A b \in S \ {a} : ranksBefore(vectorHits, graphHits, a, b)
         IN  <<best>> \o ranked(vectorHits, graphHits, S \ {best})

\* The mutant of rankedProducts: the vector hits are cut to topK before the
\* fusion, which then ranks what is left.
rankedProducts_TruncateBeforeFusion(vectorHits, graphHits, topK) ==
    LET first == ranked(vectorHits, NoHits, DOMAIN vectorHits)
        kept == {first[i] : i \in 1..Min(topK, Len(first))}
    IN  ranked(vectorHits, graphHits, kept)

\* Merge, fuse, rank, then truncate to topK.
rankedProducts(vectorHits, graphHits, topK) ==
    LET all == ranked(vectorHits, graphHits, DOMAIN vectorHits \cup DOMAIN graphHits)
    IN  SubSeq(all, 1, Min(topK, Len(all)))

\* The mutant of respond: a query whose graph expansion is unavailable fails.
respond_FailsWithoutGraph(q) ==
    IF q.vector = "failed" \/ q.graph = "unavailable"
    THEN [q EXCEPT !.pc = "done", !.outcome = "RetrievalUnavailable"]
    ELSE [q EXCEPT !.pc = "done", !.outcome = "success",
                   !.products = rankedProducts(q.vectorHits, q.graphHits, q.topK)]

\* The join and what follows it: without the vector channel the query fails
\* with RetrievalUnavailable; without the graph channel it goes on with the
\* vector hits alone and the trace is flagged degraded.
respond(q) ==
    IF q.vector = "failed"
    THEN [q EXCEPT !.pc = "done", !.outcome = "RetrievalUnavailable"]
    ELSE [q EXCEPT !.pc = "done", !.outcome = "success",
                   !.degraded = (q.graph = "unavailable"),
                   !.products = rankedProducts(q.vectorHits, q.graphHits, q.topK)]

NoQuery ==
    [pc |-> "idle", requested |-> 0, topK |-> 0,
     vector |-> "none", vectorTries |-> 0, vectorHits |-> NoHits,
     graph |-> "none", graphTries |-> 0, graphHits |-> NoHits,
     outcome |-> "none", products |-> <<>>, degraded |-> FALSE]

InitQuery == query = NoQuery

\* A recommendation query arrives, its topK is bounded by the configured
\* maximum, and both channels are started.
submitQuery(topK) ==
    /\ query.pc = "idle"
    /\ query' = [NoQuery EXCEPT !.pc = "retrieving", !.requested = topK,
                                !.topK = Min(topK, ConfiguredMaxTopK),
                                !.vector = "pending", !.graph = "pending"]
    /\ UNCHANGED <<ingestVars, indexManager, rebuildVars, apiVars, widgetVars, uploadVars, scriptVars, sdkVars>>

vectorQueryReturns(hits) ==
    /\ query.vector = "pending"
    /\ query' = [query EXCEPT !.vector = "ok", !.vectorHits = hits]
    /\ UNCHANGED <<ingestVars, indexManager, rebuildVars, apiVars, widgetVars, uploadVars, scriptVars, sdkVars>>

\* A vector-store call fails: it is retried, and after the last attempt the
\* vector store counts as unavailable.
vectorQueryFails ==
    /\ query.vector = "pending"
    /\ query' = IF query.vectorTries + 1 < QueryAttemptCap
                THEN [query EXCEPT !.vectorTries = @ + 1]
                ELSE [query EXCEPT !.vectorTries = @ + 1, !.vector = "failed"]
    /\ UNCHANGED <<ingestVars, indexManager, rebuildVars, apiVars, widgetVars, uploadVars, scriptVars, sdkVars>>

graphQueryReturns(hits) ==
    /\ query.graph = "pending"
    /\ query' = [query EXCEPT !.graph = "ok", !.graphHits = hits]
    /\ UNCHANGED <<ingestVars, indexManager, rebuildVars, apiVars, widgetVars, uploadVars, scriptVars, sdkVars>>

\* A graph-store call fails: it is retried, and after the last attempt the
\* graph store counts as unavailable.
graphQueryFails ==
    /\ query.graph = "pending"
    /\ query' = IF query.graphTries + 1 < QueryAttemptCap
                THEN [query EXCEPT !.graphTries = @ + 1]
                ELSE [query EXCEPT !.graphTries = @ + 1, !.graph = "unavailable"]
    /\ UNCHANGED <<ingestVars, indexManager, rebuildVars, apiVars, widgetVars, uploadVars, scriptVars, sdkVars>>

\* Both channels have settled: the response is assembled.
assembleResponse ==
    /\ query.pc = "retrieving"
    /\ query.vector \in {"ok", "failed"}
    /\ query.graph \in {"ok", "unavailable"}
    /\ query' = respond(query)
    /\ UNCHANGED <<ingestVars, indexManager, rebuildVars, apiVars, widgetVars, uploadVars, scriptVars, sdkVars>>

\* The response has been sent.
queryEnds ==
    /\ query.pc = "done"
    /\ query' = NoQuery
    /\ UNCHANGED <<ingestVars, indexManager, rebuildVars, apiVars, widgetVars, uploadVars, scriptVars, sdkVars>>

NextQuery ==
    \/ \E topK \in 1..MaxQueryTopK : submitQuery(topK)
    \/ \E hits \in Hits(0..MaxScore) : vectorQueryReturns(hits)
    \/ vectorQueryFails
    \/ \E hits \in Hits(1..MaxScore) : graphQueryReturns(hits)
    \/ graphQueryFails
    \/ assembleResponse
    \/ queryEnds

(***************************************************************************)
(* Server core: Index Manager                                              *)
(*                                                                         *)
(* Not among the sources; this part follows sections 4.2 and 6 of the      *)
(* specification.  A rebuild of a knowledge base writes the chunks of all  *)
(* its documents into a staged index, several writes in flight at a time;  *)
(* after the last write it swaps the staged index in as the queryable one. *)
(* A failed write or a cancellation stops the scheduling of writes; the    *)
(* writes in flight end, then the staged data is discarded.  Queries are   *)
(* served from the queryable index throughout.                             *)
(***************************************************************************)

KbIds == {"A", "B"}

\* Most chunks one rebuild writes.
MaxStagedChunks == 2

\* Rebuilds per knowledge base in a run of the model.
MaxGenerations == 2

\* The index that the rebuild of generation gen with n chunks builds.
CompleteIndex(gen, n) == {<<gen, c>> : c \in 1..n}

\* A knowledge base before its first rebuild.  live: the queryable index;
\* prior: the queryable index when the last rebuild began; staged: the
\* chunks the running rebuild has committed; job: "idle", "running" or
\* "stopping"; reason: why it is stopping; gen, n: the generation and number
\* of chunks of the last rebuild; scheduled: the chunk writes scheduled;
\* inFlight: those not yet ended; drained: the writes that ended after the
\* rebuild had begun to stop; outcome: how the last rebuild ended; reply:
\* the answer to the last startRebuild; discarded: the generations that
\* were discarded; served: the index the last query was answered from.
NoIndex ==
    [live |-> CompleteIndex(0, 1), prior |-> CompleteIndex(0, 1), staged |-> {},
     job |-> "idle", reason |-> "none", gen |-> 0, n |-> 0, scheduled |-> 0,
     inFlight |-> {}, drained |-> 0, outcome |-> "none", reply |-> "none",
     discarded |-> {}, served |-> CompleteIndex(0, 1)]

InitIndexManager == indexManager = [kb \in KbIds |-> NoIndex]

\* The mutant of maySchedule: a stopping rebuild goes on scheduling writes.
maySchedule_WhileStopping(ix) ==
    ix.job \in {"running", "stopping"} /\ ix.scheduled < ix.n

\* Further chunk writes are scheduled only while the rebuild runs.
maySchedule(ix) == ix.job = "running" /\ ix.scheduled < ix.n

\* The mutant of chunkWritten: the rebuild writes into the queryable index.
chunkWritten_InPlace(ix, c) ==
    [ix EXCEPT !.live = @ \cup {<<ix.gen, c>>},
               !.inFlight = @ \ {c},
               !.drained = IF ix.job = "stopping" THEN @ + 1 ELSE @]

\* A chunk write has been committed: to the staged index.
chunkWritten(ix, c) ==
    [ix EXCEPT !.staged = @ \cup {<<ix.gen, c>>},
               !.inFlight = @ \ {c},
               !.drained = IF ix.job = "stopping" THEN @ + 1 ELSE @]

\* startRebuild(kb_id): RebuildInProgress while a rebuild of the knowledge
\* base is active, a new rebuild otherwise.
startRebuild(kb, n) ==
    /\ indexManager[kb].gen < MaxGenerations
    /\ indexManager' = [indexManager EXCEPT ![kb] =
          IF indexManager[kb].job # "idle"
          THEN [@ EXCEPT !.reply = "RebuildInProgress"]
          ELSE [@ EXCEPT !.job = "running", !.reason = "none", !.gen = @ + 1, !.n = n,
                         !.scheduled = 0, !.inFlight = {}, !.drained = 0,
                         !.staged = {}, !.prior = indexManager[kb].live,
                         !.outcome = "none", !.reply = "started"]]
    /\ UNCHANGED <<ingestVars, query, rebuildVars, apiVars, widgetVars, uploadVars, scriptVars, sdkVars>>

\* The next chunk write is scheduled.
scheduleWrite(kb) ==
    /\ maySchedule(indexManager[kb])
    /\ indexManager' = [indexManager EXCEPT
          ![kb].scheduled = @ + 1,
          ![kb].inFlight = @ \cup {indexManager[kb].scheduled + 1}]
    /\ UNCHANGED <<ingestVars, query, rebuildVars, apiVars, widgetVars, uploadVars, scriptVars, sdkVars>>

\* A chunk write in flight is committed.
writeCompletes(kb, c) ==
    /\ c \in indexManager[kb].inFlight
    /\ indexManager' = [indexManager EXCEPT ![kb] = chunkWritten(@, c)]
    /\ UNCHANGED <<ingestVars, query, rebuildVars, apiVars, widgetVars, uploadVars, scriptVars, sdkVars>>

\* A chunk write in flight fails for good: the rebuild stops as failed,
\* unless it is stopping already.
writeFails(kb, c) ==
    /\ c \in indexManager[kb].inFlight
    /\ indexManager' = [indexManager EXCEPT ![kb] =
          [@ EXCEPT !.inFlight = @ \ {c},
                    !.drained = IF indexManager[kb].job = "stopping" THEN @ + 1 ELSE @,
                    !.reason = IF indexManager[kb].job = "running" THEN "failed" ELSE @,
                    !.job = "stopping"]]
    /\ UNCHANGED <<ingestVars, query, rebuildVars, apiVars, widgetVars, uploadVars, scriptVars, sdkVars>>

\* cancel(kb_id) on a running rebuild.
cancel(kb) ==
    /\ indexManager[kb].job = "running"
    /\ indexManager' = [indexManager EXCEPT ![kb].job = "stopping",
                                            ![kb].reason = "cancelled"]
    /\ UNCHANGED <<ingestVars, query, rebuildVars, apiVars, widgetVars, uploadVars, scriptVars, sdkVars>>

\* All chunks are committed: the staged index replaces the queryable one.
swap(kb) ==
    /\ indexManager[kb].job = "running"
    /\ indexManager[kb].scheduled = indexManager[kb].n
    /\ indexManager[kb].inFlight = {}
    /\ indexManager' = [indexManager EXCEPT ![kb] =
          [@ EXCEPT !.live = indexManager[kb].staged, !.staged = {},
                    !.job = "idle", !.outcome = "succeeded"]]
    /\ UNCHANGED <<ingestVars, query, rebuildVars, apiVars, widgetVars, uploadVars, scriptVars, sdkVars>>

\* The writes in flight of a stopping rebuild have ended: the staged data
\* is discarded.
discard(kb) ==
    /\ indexManager[kb].job = "stopping"
    /\ indexManager[kb].inFlight = {}
    /\ indexManager' = [indexManager EXCEPT ![kb] =
          [@ EXCEPT !.staged = {}, !.job = "idle",
                    !.outcome = indexManager[kb].reason,
                    !.discarded = @ \cup {indexManager[kb].gen}]]
    /\ UNCHANGED <<ingestVars, query, rebuildVars, apiVars, widgetVars, uploadVars, scriptVars, sdkVars>>

\* A query of the knowledge base is answered from the queryable index.
serveQuery(kb) ==
    /\ indexManager' = [indexManager EXCEPT ![kb].served = indexManager[kb].live]
    /\ UNCHANGED <<ingestVars, query, rebuildVars, apiVars, widgetVars, uploadVars, scriptVars, sdkVars>>

NextIndexManager ==
    \/ \E kb \in KbIds, n \in 1..MaxStagedChunks : startRebuild(kb, n)
    \/ \E kb \in KbIds : scheduleWrite(kb)
    \/ \E kb \in KbIds, c \in 1..MaxStagedChunks : writeCompletes(kb, c)
    \/ \E kb \in KbIds, c \in 1..MaxStagedChunks : writeFails(kb, c)
    \/ \E kb \in KbIds : cancel(kb)
    \/ \E kb \in KbIds : swap(kb)
    \/ \E kb \in KbIds : discard(kb)
    \/ \E kb \in KbIds : serveQuery(kb)

(***************************************************************************)
(* deploy.sh                                                               *)
(*                                                                         *)
(* One run of the script under `set -e`.  The run is a list of functions   *)
(* still to call and, inside the function being run, a list of commands    *)
(* still to run.  A command is [words, compose, guarded]: `compose` says   *)
(* the line begins with $COMPOSE_CMD, `guarded` that it is the condition   *)
(* of an `if`, whose failure does not end the script.                      *)
(***************************************************************************)

ComposeCmds == {"docker compose", "docker-compose"}

\* What $COMPOSE_CMD expands to when nothing has assigned it.
Unset == ""

\* "" is ./deploy.sh without an argument (the `*` arm of the case).
Args == {"", "build", "start", "stop", "restart", "logs", "status", "clean", "help"}

Compose(words) == [words |-> words, compose |-> TRUE, guarded |-> FALSE]

Plain(words) == [words |-> words, compose |-> FALSE, guarded |-> FALSE]

Guarded(words) == [words |-> words, compose |-> FALSE, guarded |-> TRUE]

UpDatabases == "up -d etcd minio neo4j"

UpMilvus == "up -d milvus"

UpApplications == "up -d backend frontend_admin frontend_sdk"

build_images ==
    <<Compose("build backend"), Compose("build frontend_admin"), Compose("build frontend_sdk")>>

start_services_AppsFirst ==
    <<Compose(UpApplications), Plain("sleep 30"), Compose(UpDatabases),
      Plain("sleep 60"), Compose(UpMilvus)>>

start_services ==
    <<Compose(UpDatabases), Plain("sleep 30"), Compose(UpMilvus),
      Plain("sleep 60"), Compose(UpApplications)>>

check_services ==
    <<Compose("ps"), Plain("sleep 10"), Guarded("curl embedai_backend"),
      Guarded("curl embedai_admin"), Guarded("curl embedai_sdk")>>

show_access_info == <<>>

main ==
    <<"check_dependencies", "check_environment", "check_ports", "build_images",
      "start_services", "check_services", "show_access_info">>

\* The case statement: the functions, or the inline arm, an argument runs.
dispatch(arg) ==
    CASE arg = "build" -> <<"check_dependencies", "build_images">>
      [] arg = "start" -> <<"check_dependencies", "start_services">>
      [] arg = "status" -> <<"check_services">>
      [] arg \in {"stop", "restart", "logs", "clean", "help"} -> <<arg>>
      [] OTHER -> main

\* The commands of a function, or of an inline arm of the case statement.
commandsOf(f, confirm) ==
    CASE f = "build_images" -> build_images
      [] f = "start_services" -> start_services
      [] f = "check_services" -> check_services
      [] f = "show_access_info" -> show_access_info
      [] f = "stop" -> <<Compose("down")>>
      [] f = "restart" -> <<Compose("restart")>>
      [] f = "logs" -> <<Compose("logs -f")>>
      [] f = "clean" -> IF confirm
                        THEN <<Compose("down -v --remove-orphans"),
                               Plain("docker system prune -f")>>
                        ELSE <<>>
      [] OTHER -> <<>>

\* With $COMPOSE_CMD empty the shell takes the first word of the rest of the
\* line as the program: `ps` exists, `build`, `up`, `down`, `restart` and
\* `logs` are not programs.
programFound(c, composeCmd) == ~c.compose \/ composeCmd # Unset \/ c.words = "ps"

NoDeploy ==
    [arg |-> "", status |-> "idle", COMPOSE_CMD |-> Unset, setBy |-> "nobody",
     calls |-> <<>>, body |-> <<>>, steps |-> <<>>, commands |-> <<>>]

InitDeploy == deploy = NoDeploy

deployAtCall(f) ==
    /\ deploy.status = "running"
    /\ deploy.body = <<>>
    /\ deploy.calls # <<>>
    /\ Head(deploy.calls) = f

called(f) == [deploy EXCEPT !.calls = Tail(@), !.steps = Append(@, f)]

exit(d, code) == [d EXCEPT !.status = code, !.calls = <<>>, !.body = <<>>]

\* ./deploy.sh arg, started in a shell whose environment may export COMPOSE_CMD.
runDeploy(arg, inherited) ==
    /\ deploy.status # "running"
    /\ deploy' = [NoDeploy EXCEPT !.arg = arg, !.status = "running",
                                  !.COMPOSE_CMD = inherited,
                                  !.setBy = IF inherited = Unset THEN "nobody"
                                            ELSE "environment",
                                  !.calls = dispatch(arg)]
    /\ UNCHANGED <<rebuildVars, apiVars, widgetVars, uploadVars, coreVars, dbStart, sdkVars>>

check_dependencies(docker, composeV1, composeV2) ==
    /\ deployAtCall("check_dependencies")
    /\ deploy' = IF ~docker \/ (~composeV1 /\ ~composeV2)
                 THEN exit(called("check_dependencies"), "exit 1")
                 ELSE [called("check_dependencies") EXCEPT
                          !.COMPOSE_CMD = IF composeV2 THEN "docker compose"
                                          ELSE "docker-compose",
                          !.setBy = "check_dependencies"]
    /\ UNCHANGED <<rebuildVars, apiVars, widgetVars, uploadVars, coreVars, dbStart, sdkVars>>

check_environment(envFile, envExample, keyConfigured) ==
    /\ deployAtCall("check_environment")
    /\ deploy' = IF (~envFile /\ ~envExample) \/ ~keyConfigured
                 THEN exit(called("check_environment"), "exit 1")
                 ELSE called("check_environment")
    /\ UNCHANGED <<rebuildVars, apiVars, widgetVars, uploadVars, coreVars, dbStart, sdkVars>>

check_ports(occupied, continue_deploy) ==
    /\ deployAtCall("check_ports")
    /\ deploy' = IF occupied /\ ~continue_deploy
                 THEN exit(called("check_ports"), "exit 1")
                 ELSE called("check_ports")
    /\ UNCHANGED <<rebuildVars, apiVars, widgetVars, uploadVars, coreVars, dbStart, sdkVars>>

\* Entering a function made of commands, or an inline arm; `confirm` is the
\* answer read by the clean arm.
callFunction(f, confirm) ==
    /\ deployAtCall(f)
    /\ f \notin {"check_dependencies", "check_environment", "check_ports"}
    /\ deploy' = [called(f) EXCEPT !.body = commandsOf(f, confirm)]
    /\ UNCHANGED <<rebuildVars, apiVars, widgetVars, uploadVars, coreVars, dbStart, sdkVars>>

\* The next command of the function runs and ends with status 0 (ok) or not.
runCommand(ok) ==
    /\ deploy.status = "running"
    /\ deploy.body # <<>>
    /\ LET c == Head(deploy.body)
           found == programFound(c, deploy.COMPOSE_CMD)
           ran == [words |-> c.words, compose |-> c.compose,
                   via |-> deploy.COMPOSE_CMD, setBy |-> deploy.setBy,
                   ok |-> found /\ ok]
           d == [deploy EXCEPT !.body = Tail(@), !.commands = Append(@, ran)]
       IN  deploy' = IF ~found THEN exit(d, "exit 127")
                     ELSE IF ~ok /\ ~c.guarded THEN exit(d, "exit 1")
                     ELSE d
    /\ UNCHANGED <<rebuildVars, apiVars, widgetVars, uploadVars, coreVars, dbStart, sdkVars>>

deployEnds ==
    /\ deploy.status = "running"
    /\ deploy.body = <<>>
    /\ deploy.calls = <<>>
    /\ deploy' = [deploy EXCEPT !.status = "exit 0"]
    /\ UNCHANGED <<rebuildVars, apiVars, widgetVars, uploadVars, coreVars, dbStart, sdkVars>>

NextDeploy ==
    \/ \E arg \in Args, inherited \in ComposeCmds \cup {Unset} : runDeploy(arg, inherited)
    \/ \E docker, composeV1, composeV2 \in BOOLEAN :
          check_dependencies(docker, composeV1, composeV2)
    \/ \E envFile, envExample, keyConfigured \in BOOLEAN :
          check_environment(envFile, envExample, keyConfigured)
    \/ \E occupied, continue_deploy \in BOOLEAN : check_ports(occupied, continue_deploy)
    \/ \E f \in Args \cup {"build_images", "start_services", "check_services",
                           "show_access_info"}, confirm \in BOOLEAN :
          callFunction(f, confirm)
    \/ \E ok \in BOOLEAN : runCommand(ok)
    \/ deployEnds

(***************************************************************************)
(* start-databases.sh: wait_for_services                                   *)
(*                                                                         *)
(* `docker ps` prints one row per running container with its STATUS text;  *)
(* the row of the service being waited for is all the loop looks at.       *)
(***************************************************************************)

services == <<"embedai_etcd", "embedai_minio", "embedai_neo4j", "embedai_milvus">>

max_wait == 300

SleepSeconds == 5

\* The STATUS texts of a container; "" is a container `docker ps` does not
\* list (not created, or exited).
NotListed == ""

ContainerStatus ==
    {NotListed, "Restarting", "Up", "Up (health: starting)", "Up (healthy)",
     "Up (unhealthy)"}

ContainsUp == {"Up", "Up (health: starting)", "Up (healthy)", "Up (unhealthy)"}

ContainsHealthy == {"Up (healthy)", "Up (unhealthy)"}

\* grep "$service" | grep -q "healthy\|Up"
grepStarted(status) ==
    status # NotListed /\ (status \in ContainsHealthy \/ status \in ContainsUp)

NotReported == "not reported"

NoDbStart ==
    [pc |-> "idle", service |-> 1, elapsed |-> 0, container |-> NotListed,
     reported |-> [i \in DOMAIN services |-> NotReported], warned |-> {}]

InitDbStart == dbStart = NoDbStart

\* The end of the for body: elapsed=0 and the next service, if there is one.
nextService(d, status) ==
    IF d.service = Len(services)
    THEN [d EXCEPT !.pc = "done", !.elapsed = 0]
    ELSE [d EXCEPT !.service = @ + 1, !.elapsed = 0, !.container = status]

wait_for_services(status) ==
    /\ dbStart.pc # "waiting"
    /\ dbStart' = [NoDbStart EXCEPT !.pc = "waiting", !.container = status]
    /\ UNCHANGED <<rebuildVars, apiVars, widgetVars, uploadVars, coreVars, deploy, sdkVars>>

\* The container of the service being waited for changes state.
containerChanges(status) ==
    /\ dbStart.pc = "waiting"
    /\ status # dbStart.container
    /\ dbStart' = [dbStart EXCEPT !.container = status]
    /\ UNCHANGED <<rebuildVars, apiVars, widgetVars, uploadVars, coreVars, deploy, sdkVars>>

\* The if inside the loop is taken: log_success and break.
serviceReportedStarted(status) ==
    /\ dbStart.pc = "waiting"
    /\ dbStart.elapsed < max_wait
    /\ grepStarted(dbStart.container)
    /\ dbStart' = nextService([dbStart EXCEPT
                                  !.reported[dbStart.service] = dbStart.container],
                              status)
    /\ UNCHANGED <<rebuildVars, apiVars, widgetVars, uploadVars, coreVars, deploy, sdkVars>>

\* sleep 5; elapsed=$((elapsed + 5))
sleepAndRetry ==
    /\ dbStart.pc = "waiting"
    /\ dbStart.elapsed < max_wait
    /\ ~grepStarted(dbStart.container)
    /\ dbStart' = [dbStart EXCEPT !.elapsed = @ + SleepSeconds]
    /\ UNCHANGED <<rebuildVars, apiVars, widgetVars, uploadVars, coreVars, deploy, sdkVars>>

\* The loop condition fails: log_warning and on to the next service.
waitTimesOut(status) ==
    /\ dbStart.pc = "waiting"
    /\ dbStart.elapsed >= max_wait
    /\ dbStart' = nextService([dbStart EXCEPT !.warned = @ \cup {dbStart.service}],
                              status)
    /\ UNCHANGED <<rebuildVars, apiVars, widgetVars, uploadVars, coreVars, deploy, sdkVars>>

NextDbStart ==
    \/ \E status \in ContainerStatus : wait_for_services(status)
    \/ \E status \in ContainerStatus : containerChanges(status)
    \/ \E status \in ContainerStatus : serviceReportedStarted(status)
    \/ sleepAndRetry
    \/ \E status \in ContainerStatus : waitTimesOut(status)

(***************************************************************************)
(* Chat SDK: utils/config, validateConfig                                  *)
(*                                                                         *)
(* A Partial<IntelliRecsConfig> is modelled by the four fields the         *)
(* function reads; a string that is missing is "", as `!x` treats both     *)
(* alike.                                                                  *)
(***************************************************************************)

\* The strings new URL(string) accepts, among the inputs.
ParsesAsUrl == {"https://api.example.com"}

isValidUrl(string) == string \in ParsesAsUrl

\* `x && (x < low || x > high)`: 0 is falsy, like the missing number.
givenAndOutside(x, low, high) ==
    /\ x # NoNumber
    /\ x[1] # 0
    /\ (x[1] < low \/ x[1] > high)

validateConfig(config) ==
    (IF config.tenantId = "" THEN <<"tenantId is required">> ELSE <<>>)
    \o (IF config.apiBase = "" THEN <<"apiBase is required">>
        ELSE IF ~isValidUrl(config.apiBase) THEN <<"apiBase must be a valid URL">>
        ELSE <<>>)
    \o (IF givenAndOutside(config.maxHistoryLength, 1, 100)
        THEN <<"maxHistoryLength must be between 1 and 100">> ELSE <<>>)
    \o (IF givenAndOutside(config.requestTimeout, 1000, 120000)
        THEN <<"requestTimeout must be between 1000ms and 120000ms">> ELSE <<>>)

ConfigInputs ==
    [tenantId : {"", "tenant"},
     apiBase : {"", "api.example.com", "https://api.example.com"},
     maxHistoryLength : {NoNumber} \cup {Given(n) : n \in {-1, 0, 1, 100, 101}},
     requestTimeout : {NoNumber} \cup {Given(n) : n \in {-1, 0, 999, 1000, 120000, 120001}}]

NoValidation ==
    [called |-> FALSE,
     config |-> [tenantId |-> "", apiBase |-> "", maxHistoryLength |-> NoNumber,
                 requestTimeout |-> NoNumber],
     errors |-> <<>>]

InitValidation == validation = NoValidation

validateConfigCalled(config) ==
    /\ validation' = [called |-> TRUE, config |-> config, errors |-> validateConfig(config)]
    /\ UNCHANGED <<rebuildVars, apiVars, widgetVars, uploadVars, coreVars, scriptVars, sdk>>

NextValidation == \E config \in ConfigInputs : validateConfigCalled(config)

(***************************************************************************)
(* Chat SDK: the entry module (init, destroy, open, close)                 *)
(*                                                                         *)
(* A container is named by the Date.now() of the init that made it, a      *)
(* React root by a serial number; 0 is null.  The page is the set of       *)
(* containers in document.body and the set of roots not unmounted.         *)
(***************************************************************************)

\* Latest value of Date.now() at an init.
MaxClock == 3

\* Most roots createRoot hands out.
MaxRoots == 3

\* widgetRoot.render(ChatWidget({ config })): the component is called as a
\* plain function while evaluating the argument.  Its first statement is
\* useState, and a hook called outside a render of React throws.
ChatWidgetCallThrows == TRUE

NoSdk ==
    [widgetInstance |-> 0, widgetRoot |-> 0, containers |-> {}, roots |-> {},
     clock |-> 0, created |-> 0, lastCall |-> "none", threw |-> FALSE,
     dispatched |-> FALSE]

InitSdk == sdk = NoSdk

\* What destroy() does to the module's variables and the page.
destroyed(k) ==
    [k EXCEPT !.roots = {r \in @ : r.id # k.widgetRoot},
              !.widgetRoot = 0,
              !.containers = IF k.widgetInstance # 0 THEN @ \ {k.widgetInstance} ELSE @,
              !.widgetInstance = 0]

\* init(userConfig); apiBase: whether config.apiBase is truthy after the
\* defaults are applied; tick: the milliseconds since the previous init.
init(apiBase, tick) ==
    /\ sdk.clock + tick <= MaxClock
    /\ sdk.clock + tick >= 1
    /\ sdk.created < MaxRoots
    /\ LET now == sdk.clock + tick
           k0 == [sdk EXCEPT !.clock = now, !.lastCall = "init", !.threw = FALSE,
                             !.dispatched = FALSE]
           k1 == IF k0.widgetInstance # 0 THEN destroyed(k0) ELSE k0
           root == [id |-> k1.created + 1, container |-> now]
           k2 == [k1 EXCEPT !.containers = @ \cup {now},
                            !.created = @ + 1,
                            !.roots = @ \cup {root},
                            !.widgetRoot = root.id]
       IN  sdk' = IF ~apiBase THEN k0
                  ELSE IF ChatWidgetCallThrows THEN k2
                  ELSE [k2 EXCEPT !.widgetInstance = now]
    /\ UNCHANGED <<rebuildVars, apiVars, widgetVars, uploadVars, coreVars, scriptVars, validation>>

destroy ==
    /\ sdk' = [destroyed(sdk) EXCEPT !.lastCall = "destroy", !.threw = FALSE,
                                     !.dispatched = FALSE]
    /\ UNCHANGED <<rebuildVars, apiVars, widgetVars, uploadVars, coreVars, scriptVars, validation>>

open ==
    /\ sdk' = [sdk EXCEPT !.lastCall = "open", !.threw = FALSE,
                          !.dispatched = sdk.widgetInstance # 0]
    /\ UNCHANGED <<rebuildVars, apiVars, widgetVars, uploadVars, coreVars, scriptVars, validation>>

close ==
    /\ sdk' = [sdk EXCEPT !.lastCall = "close", !.threw = FALSE,
                          !.dispatched = sdk.widgetInstance # 0]
    /\ UNCHANGED <<rebuildVars, apiVars, widgetVars, uploadVars, coreVars, scriptVars, validation>>

NextSdk ==
    \/ \E apiBase \in BOOLEAN, tick \in 0..1 : init(apiBase, tick)
    \/ destroy
    \/ open
    \/ close

(***************************************************************************)
(* Specifications                                                          *)
(***************************************************************************)

\* The widget as mounted with the default welcome text and history length.
InitWidgetIdle == InitWidget({TRUE}, {0})

InitCore == InitIngest /\ InitQuery /\ InitIndexManager

InitScripts == InitDeploy /\ InitDbStart /\ InitSdk /\ InitValidation

Init ==
    /\ InitRebuild
    /\ InitApi("part_003")
    /\ InitWidget(BOOLEAN, MaxHistoryInputs)
    /\ InitUpload
    /\ InitCore
    /\ InitScripts

Next ==
    \/ NextRebuild \/ NextApi \/ NextApiTimers \/ NextChatProps \/ NextUpload
    \/ NextIngest \/ NextQuery \/ NextIndexManager
    \/ NextDeploy \/ NextDbStart \/ NextSdk \/ NextValidation

Spec == Init /\ [][Next]_vars

\* Everything but the program a specification is about stays as constructed.
InitIdle ==
    /\ InitRebuild /\ InitApi("part_003") /\ InitWidgetIdle /\ InitUpload
    /\ InitCore /\ InitScripts

SpecRebuild == InitIdle /\ [][NextRebuild]_vars

SpecApi == InitIdle /\ [][NextApi]_vars

InitSpecApi004 ==
    /\ InitRebuild /\ InitApi("part_004") /\ InitWidgetIdle /\ InitUpload
    /\ InitCore /\ InitScripts

SpecApi004 == InitSpecApi004 /\ [][NextApi]_vars

InitSpecChat ==
    /\ InitRebuild
    /\ InitApi("part_003")
    /\ InitWidget(BOOLEAN, MaxHistoryInputs)
    /\ InitUpload
    /\ InitCore
    /\ InitScripts

SpecChat == InitSpecChat /\ [][NextChat]_vars

SpecChatProps == InitIdle /\ [][NextChatProps]_vars

\* APIService with what its timers guarantee: the timeout timer aborts a
\* fetch that does not settle by itself, so every fetch settles, and the
\* delay before a retry ends.  The timer is cleared once fetch has resolved
\* (clearTimeout(timeoutId)): nothing makes response.json() settle.
fetchSettles ==
    \/ \E error \in FetchErrors : fetchRejects(error)
    \/ \E error \in HttpErrors : fetchRespondsNotOk(error)
    \/ fetchRespondsOk

SpecApiLive ==
    /\ InitIdle
    /\ [][NextApi]_vars
    /\ WF_vars(fetchSettles)
    /\ WF_vars(retryDelayElapsed)

SpecApiTimers == InitIdle /\ [][NextApiTimers]_vars

\* The widget with what its runtime guarantees: a fetch settles (its timer
\* aborts it), the delay before a retry ends, the continuation of
\* handleSendMessage runs once sendMessage has settled, and React renders
\* pending updates.  Nothing makes response.json() settle.
SpecChatLive ==
    /\ InitIdle
    /\ [][NextChat]_vars
    /\ WF_vars(fetchSettles)
    /\ WF_vars(retryDelayElapsed)
    /\ WF_vars(handleSendMessageResumes)
    /\ WF_vars(render)

SpecUpload == InitIdle /\ [][NextUpload]_vars

SpecIngest == InitIdle /\ [][NextIngest]_vars

SpecQuery == InitIdle /\ [][NextQuery]_vars

SpecIndexManager == InitIdle /\ [][NextIndexManager]_vars

SpecDeploy == InitIdle /\ [][NextDeploy]_vars

SpecDbStart == InitIdle /\ [][NextDbStart]_vars

SpecSdk == InitIdle /\ [][NextSdk]_vars

SpecValidation == InitIdle /\ [][NextValidation]_vars

(***************************************************************************)
(* Claims                                                                  *)
(***************************************************************************)

\* C1: for every knowledge base at most one rebuild is in progress at any time.
C1_AtMostOneRebuildInProgress ==
    \A db \in DbIds : Cardinality(RunningRebuilds(db)) <= 1

\* C2: a rebuild requested while another rebuild of the same knowledge base is
\* running fails with RebuildInProgress; it is neither run nor reported as a
\* success.
C2_SecondRebuildFailsInProgress ==
    \A i \in RebuildIds :
        rebuilds[i].overlapped => rebuilds[i].state = "RebuildInProgress"

\* C3 (as claimed): every response with products that sendMessage has accepted,
\* and every one whose products the widget has attached to a chat message,
\* carries at least one Evidence entry.
C3_RecommendationsHaveEvidence ==
    /\ (call.op = "sendMessage" /\ call.pc = "returned" /\ call.body.products # <<>>)
          => call.body.evidence >= 1
    /\ received.products # <<>> => received.evidence >= 1

\* C4: a document whose ingestion has ended in failure, after any number of
\* its chunks had been written, has no chunk in the vector store.
C4_FailedIngestionLeavesNoChunks ==
    \A d \in DocIds :
        (docs[d].status = "failed" /\ docs[d].phase = "ended") => chunksOf(d) = {}

\* C4 witness: an ingestion has ended in failure after all chunks of the
\* document had been written.
C4_Witness ==
    \E d \in DocIds :
        /\ docs[d].status = "failed" /\ docs[d].phase = "ended"
        /\ docs[d].n = MaxChunks /\ docs[d].failedAfter = docs[d].n

C6_CompletedOnlyAfterBothWrites ==
    \A d \in DocIds :
        docs[d].status = "completed" =>
            /\ docs[d].vectorDone /\ docs[d].graphDone
            /\ \A k \in 1..docs[d].n : <<d, k>> \in vectorStore
            /\ d \in graphStore
            /\ docs[d].error = ""

\* C6 witness: a document of the largest number of chunks is completed.
C6_Witness ==
    \E d \in DocIds : docs[d].status = "completed" /\ docs[d].n = MaxChunks

\* C7: a query never fails for the graph store alone.  When the graph store
\* was unavailable and the vector store answered, the response is a success,
\* its trace is flagged degraded, and its products are the vector hits in
\* the order of their vector score (the more recent first among equals), cut
\* to topK.
C7_GraphUnavailableDegradesToVectorOnly ==
    /\ query.outcome = "RetrievalUnavailable" => query.vector = "failed"
    /\ (query.pc = "done" /\ query.graph = "unavailable" /\ query.vector = "ok") =>
          LET ps == query.products
              v == query.vectorHits
              before(a, b) == v[a] > v[b] \/ (v[a] = v[b] /\ Recency[a] > Recency[b])
          IN  /\ query.outcome = "success"
              /\ query.degraded
              /\ Len(ps) = Min(query.topK, Cardinality(DOMAIN v))
              /\ \A i \in DOMAIN ps : ps[i] \in DOMAIN v
              /\ \A i, j \in DOMAIN ps : i < j => before(ps[i], ps[j])
              /\ \A i \in DOMAIN ps :
                    \A r \in DOMAIN v : (\A j \in DOMAIN ps : ps[j] # r) => before(ps[i], r)

\* C7 witness: a query answered without the graph store, with a list of
\* several vector hits that was cut to topK.
C7_Witness ==
    /\ query.pc = "done" /\ query.graph = "unavailable" /\ query.vector = "ok"
    /\ query.degraded
    /\ Len(query.products) = query.topK
    /\ query.topK >= 2
    /\ Cardinality(DOMAIN query.vectorHits) > query.topK

\* C8 (as claimed): the topK of the payload of every sendMessage call is within
\* 1..20, and 10 when the request has no topK.
C8_TopKWithinRange ==
    (call.op = "sendMessage" /\ call.pc # "idle") =>
        /\ call.payload.topK >= 1 /\ call.payload.topK <= 20
        /\ call.request.topK = NoNumber => call.payload.topK = 10

\* C9: once a response body with success: false has been read, the call has
\* thrown (it does not wait to retry and makes no further attempt) an SDKError
\* with the body's error code and message, or with API_ERROR and the default
\* message where the body has none.
C9_BusinessErrorSurfacedWithoutRetry ==
    call.body.success = "false" =>
        /\ call.pc = "thrown"
        /\ call.error.sdk /\ call.error.name = "SDKError"
        /\ call.error.code = IF call.body.errCode \in {Absent, ""}
                             THEN "API_ERROR" ELSE call.body.errCode
        /\ call.error.message = IF call.body.errMessage \in {Absent, ""}
                                THEN "request handling failed" ELSE call.body.errMessage

\* C9 witness: a business error whose message reads like a network failure
\* has been thrown in an attempt that was not the last one allowed.
C9_Witness ==
    /\ call.pc = "thrown"
    /\ call.body.success = "false"
    /\ call.body.errCode = "RATE_LIMITED"
    /\ call.body.errMessage = "Failed to fetch upstream"
    /\ call.attempt < retryAttempts

\* C10: whatever a call of sendMessage, getSessionHistory or clearSession
\* throws is an SDKError with a code and a message.
C10_FailuresAreSDKErrors ==
    call.pc = "thrown" =>
        /\ call.op \in Ops
        /\ call.error.sdk /\ call.error.name = "SDKError"
        /\ call.error.code \notin {Absent, ""}
        /\ call.error.message \notin {Absent, ""}

\* C10 witness: getSessionHistory has thrown for a response that was not ok,
\* an error that is neither a timeout nor 'Failed to fetch'.
C10_Witness ==
    /\ call.pc = "thrown"
    /\ call.op = "getSessionHistory"
    /\ call.error.code = "UNKNOWN_ERROR"
    /\ call.error.message = "HTTP 500: Internal Server Error"

\* C11 (the retry policy): a call is never beyond the attempt retryAttempts
\* allowed when it was last retried, a retry follows only a rejection of
\* fetch whose message has 'Failed to fetch' or 'NetworkError', never an
\* abort by the timeout, a response that is not ok, a body or an SDKError.
C11_RetryPolicy ==
    /\ [](call.attempt >= 2 =>
            /\ ~call.cause.sdk
            /\ call.cause.name = "TypeError"
            /\ call.cause.message \in {"Failed to fetch",
                                       "NetworkError when attempting to fetch resource."})
    /\ [](retryAttempts >= 1 /\ retryAttempts <= MaxRetryInput)
    /\ [][(call'.pc = "delay" /\ call.pc # "delay") =>
            /\ call.pc = "fetching"
            /\ call.attempt < retryAttempts
            /\ call'.attempt = call.attempt]_vars
    /\ [][call'.attempt # call.attempt =>
            \/ call'.attempt = 0
            \/ call.pc = "idle" /\ call'.attempt = 1
            \/ call.pc = "delay" /\ call'.attempt = call.attempt + 1]_vars

\* C11 (as claimed, termination): every call of request that has begun ends
\* with a result or an error.
C11_RequestTerminates ==
    (call.pc \in {"fetching", "reading", "delay"}) ~> (call.pc \in {"returned", "thrown"})

\* C12 (as claimed): a file of an unsupported type or beyond the size limit
\* is rejected before any state change: it has no entry in the upload
\* progress list and no upload works on it.
C12_UnacceptableFilesRejected ==
    /\ \A i \in DOMAIN uploadProgress : uploadProgress[i].file.acceptable
    /\ \A u \in UploadIds : \A k \in DOMAIN uploads[u].files : uploads[u].files[k].acceptable

\* C13 (as claimed): sendMessage returns only a response of the documented
\* shape, and for every other response body (one with success: false apart,
\* which is a business error) it throws the SDKError INVALID_RESPONSE.
C13_OnlyShapedResponsesReturned ==
    LET b == call.body
        shaped ==
            /\ b.json = "object"
            /\ b.reply # Absent
            /\ b.productsIsArray /\ b.evidenceIsArray
            /\ b.traceIdOk /\ b.sessionIdOk /\ b.timestampOk
            /\ \A i \in DOMAIN b.products :
                  /\ ~b.products[i].isNull
                  /\ b.products[i].sku # "" /\ b.products[i].title # ""
                  /\ b.products[i].priceIsNumber
    IN  (call.op = "sendMessage" /\ call.pc \in {"returned", "thrown"} /\ b.json # "none") =>
            IF shaped THEN call.pc = "returned"
            ELSE IF b.success = "false" THEN call.pc = "thrown"
            ELSE call.pc = "thrown" /\ call.error = SDKError("INVALID_RESPONSE",
                     "the data returned by the server has a wrong format")

\* C14 (as claimed): as long as the sessionId stays the same, every step of
\* the widget leaves the messages it had in place and at most adds messages
\* at the end; and clear-chat always changes the sessionId.
C14_MessagesAppendOnly ==
    /\ [][sessionId' = sessionId =>
            /\ Len(messages') >= Len(messages)
            /\ SubSeq(messages', 1, Len(messages)) = messages]_vars
    /\ [][handleClearChat => sessionId' # sessionId]_vars

\* C15: while a rebuild of a knowledge base is running or stopping, and
\* after one that failed or was cancelled, the queryable index is the one
\* from before the rebuild; the queryable index and the index a query was
\* answered from are always completely built and hold no chunk of a
\* generation that is still being built or was discarded.
C15_StagedSwapOnlyAfterSuccess ==
    \A kb \in KbIds :
        LET ix == indexManager[kb]
            built(index) ==
                /\ \E g \in 0..MaxGenerations, n \in 1..MaxStagedChunks :
                      index = CompleteIndex(g, n)
                /\ \A chunk \in index :
                      /\ chunk[1] \notin ix.discarded
                      /\ chunk[1] = ix.gen => (ix.job = "idle" /\ ix.outcome \in {"none", "succeeded"})
        IN  /\ (ix.job # "idle" \/ ix.outcome \in {"failed", "cancelled"}) => ix.live = ix.prior
            /\ built(ix.live)
            /\ built(ix.served)

\* C15 witness: a query was answered from the prior index while the running
\* rebuild had committed a part of its chunks to the staged index.
C15_Witness ==
    \E kb \in KbIds :
        /\ indexManager[kb].job = "running"
        /\ indexManager[kb].staged # {}
        /\ indexManager[kb].inFlight # {}
        /\ indexManager[kb].gen = MaxGenerations
        /\ indexManager[kb].served = indexManager[kb].prior
        /\ indexManager[kb].outcome = "none"

\* C16: once a rebuild is stopping after cancel, no further chunk write is
\* scheduled (the writes in flight may end) and the queryable index does
\* not change; after it has stopped the staged data is gone, the queryable
\* index is the prior one, and no chunk of a discarded generation is ever
\* in the queryable index.
C16_CancelStopsSchedulingAndDiscards ==
    /\ [][\A kb \in KbIds :
            (indexManager[kb].job = "stopping" /\ indexManager[kb].reason = "cancelled") =>
                /\ indexManager'[kb].scheduled = indexManager[kb].scheduled
                /\ indexManager'[kb].inFlight \subseteq indexManager[kb].inFlight
                /\ indexManager'[kb].live = indexManager[kb].live
                /\ indexManager'[kb].job \in {"stopping", "idle"}]_vars
    /\ [](\A kb \in KbIds :
            /\ (indexManager[kb].job = "idle" /\ indexManager[kb].outcome = "cancelled") =>
                  /\ indexManager[kb].staged = {}
                  /\ indexManager[kb].live = indexManager[kb].prior
            /\ \A chunk \in indexManager[kb].live : chunk[1] \notin indexManager[kb].discarded)

\* C16 witness: a cancelled rebuild has stopped after a write that was in
\* flight at the cancel had ended, with chunks left unscheduled.
C16_Witness ==
    \E kb \in KbIds :
        /\ indexManager[kb].job = "idle"
        /\ indexManager[kb].outcome = "cancelled"
        /\ indexManager[kb].drained >= 1
        /\ indexManager[kb].scheduled < indexManager[kb].n

\* C17: the products of a successful response are the first topK (the
\* requested topK, at most the configured maximum) of the whole merged pool
\* of vector and graph candidates in the order final score descending, then
\* dual evidence, then recency: no candidate of the pool that is left out
\* ranks before one that is returned.
C17_TopKOfTheWholePoolAfterFusion ==
    (query.pc = "done" /\ query.outcome = "success") =>
        LET ps == query.products
            v == query.vectorHits
            g == query.graphHits
            pool == DOMAIN v \cup DOMAIN g
            before(a, b) ==
                \/ finalScore(v, g, a) > finalScore(v, g, b)
                \/ /\ finalScore(v, g, a) = finalScore(v, g, b)
                   /\ dualEvidence(v, g, a) /\ ~dualEvidence(v, g, b)
                \/ /\ finalScore(v, g, a) = finalScore(v, g, b)
                   /\ dualEvidence(v, g, a) = dualEvidence(v, g, b)
                   /\ Recency[a] > Recency[b]
        IN  /\ query.topK <= ConfiguredMaxTopK /\ query.topK <= query.requested
            /\ query.topK = query.requested \/ query.topK = ConfiguredMaxTopK
            /\ Len(ps) = Min(query.topK, Cardinality(pool))
            /\ \A i \in DOMAIN ps : ps[i] \in pool
            /\ \A i, j \in DOMAIN ps : i < j => before(ps[i], ps[j])
            /\ \A i \in DOMAIN ps :
                  \A r \in pool : (\A j \in DOMAIN ps : ps[j] # r) => before(ps[i], r)

\* C17 witness: a response cut to the configured maximum, below the topK
\* asked for, whose last product came from the graph expansion alone while
\* a vector hit was left out.
C17_Witness ==
    /\ query.pc = "done" /\ query.outcome = "success"
    /\ query.requested > ConfiguredMaxTopK
    /\ Len(query.products) = ConfiguredMaxTopK
    /\ query.products[ConfiguredMaxTopK] \notin DOMAIN query.vectorHits
    /\ \E r \in DOMAIN query.vectorHits : \A j \in DOMAIN query.products : query.products[j] # r

\* C18: in the full flow of deploy.sh the functions run in the order
\* check_dependencies, check_environment, check_ports, build_images,
\* start_services, check_services; and in any run the application services
\* are started only after `up -d etcd minio neo4j` and then `up -d milvus`
\* have run and succeeded, in that order.
C18_DeployOrder ==
    /\ deploy.arg = "" =>
          \A i \in DOMAIN deploy.steps :
             deploy.steps[i] =
                <<"check_dependencies", "check_environment", "check_ports",
                  "build_images", "start_services", "check_services",
                  "show_access_info">>[i]
    /\ \A i \in DOMAIN deploy.commands :
          deploy.commands[i].words = UpApplications =>
             \E j, k \in 1..(i - 1) :
                /\ j < k
                /\ deploy.commands[j].words = UpDatabases
                /\ deploy.commands[j].ok
                /\ deploy.commands[k].words = UpMilvus
                /\ deploy.commands[k].ok

\* The full flow ran to its end and started the application services.
C18_Witness ==
    /\ deploy.arg = ""
    /\ deploy.status = "exit 0"
    /\ Len(deploy.steps) = Len(main)
    /\ \E i \in DOMAIN deploy.commands :
          deploy.commands[i].words = UpApplications /\ deploy.commands[i].ok

\* C19: under build, start, stop, restart, logs and status, every command
\* that is run through $COMPOSE_CMD is run with the value check_dependencies
\* gave the variable earlier in the same run.
C19_ComposeCmdSetBeforeUse ==
    deploy.arg \in {"build", "start", "stop", "restart", "logs", "status"} =>
       \A i \in DOMAIN deploy.commands :
          deploy.commands[i].compose =>
             /\ deploy.commands[i].setBy = "check_dependencies"
             /\ deploy.commands[i].via \in ComposeCmds

\* C20: start-databases.sh reports a service as started only when the
\* service's container is healthy, and the time waited for one service
\* never exceeds max_wait seconds.
C20_StartedOnlyWhenHealthy ==
    /\ \A i \in DOMAIN services :
          dbStart.reported[i] # NotReported => dbStart.reported[i] = "Up (healthy)"
    /\ dbStart.elapsed <= max_wait

\* The second half of C20 by itself: the wait for a service is bounded.
C20_WaitBounded ==
    /\ dbStart.elapsed <= max_wait
    /\ dbStart.elapsed = max_wait => ~ENABLED sleepAndRetry

\* C30: getSessionHistory and clearSession called with an empty sessionId
\* throw SDKError INVALID_PARAMS before request is entered (no attempt, no
\* payload), and the limit getSessionHistory sends is within 1..100, 50 when
\* the caller gave none.
C30_SessionCallsCheckParams ==
    /\ (call.op \in {"getSessionHistory", "clearSession"}
        /\ call.request.sessionId = EmptySessionId) =>
          /\ call.pc = "thrown"
          /\ call.error.sdk
          /\ call.error.code = "INVALID_PARAMS"
          /\ call.attempt = 0
          /\ call.payload = NoPayload
    /\ (call.op = "getSessionHistory" /\ call.attempt > 0) =>
          /\ call.payload.limit \in 1..100
          /\ call.request.limit = NoNumber => call.payload.limit = 50

\* clearSession was called with an empty sessionId and has thrown.
C30_Witness ==
    /\ call.op = "clearSession"
    /\ call.request.sessionId = EmptySessionId
    /\ call.pc = "thrown"

\* C27: an attempt whose timeout timer fires is aborted and the request
\* fails with SDKError TIMEOUT_ERROR without a retry (no retry ever follows
\* an AbortError), and once the request has returned or thrown none of its
\* timeout timers is pending.
C27_TimeoutAbortsAndNoTimerIsLeft ==
    /\ call.cause.name # "AbortError"
    /\ call.pc \in {"returned", "thrown"} => call.timers = 0

\* The first half of C27 by itself: the step in which fetch rejects with
\* AbortError ends the request with TIMEOUT_ERROR.
C27_AbortGivesTimeoutError ==
    [][fetchRejects(AbortError) =>
          /\ call'.pc = "thrown"
          /\ call'.error.sdk
          /\ call'.error.code = "TIMEOUT_ERROR"]_vars

\* C29: validateConfig reports 'maxHistoryLength must be between 1 and 100'
\* for every given maxHistoryLength outside 1..100 and 'requestTimeout must
\* be between 1000ms and 120000ms' for every given requestTimeout outside
\* 1000..120000, and returns the empty list exactly when tenantId is not
\* empty, apiBase is a valid URL and both numbers are absent or in range.
C29_ValidateConfigReportsRanges ==
    validation.called =>
       LET c == validation.config
           reported(text) == \E i \in DOMAIN validation.errors : validation.errors[i] = text
           historyOk == c.maxHistoryLength = NoNumber \/ c.maxHistoryLength[1] \in 1..100
           timeoutOk == c.requestTimeout = NoNumber \/ c.requestTimeout[1] \in 1000..120000
       IN  /\ ~historyOk => reported("maxHistoryLength must be between 1 and 100")
           /\ ~timeoutOk => reported("requestTimeout must be between 1000ms and 120000ms")
           /\ validation.errors = <<>> <=>
                 (c.tenantId # "" /\ c.apiBase \in ParsesAsUrl /\ historyOk /\ timeoutOk)

\* C29 without the value 0: what validateConfig does report.
C29_NonZeroRangesReported ==
    (/\ validation.called
     /\ validation.config.maxHistoryLength # Given(0)
     /\ validation.config.requestTimeout # Given(0)) => C29_ValidateConfigReportsRanges

\* C26: after any sequence of init, destroy, open and close at most one
\* widget container and one React root exist; after destroy there is no
\* instance, no root and no container; no call throws; open and close
\* dispatch nothing when no instance exists.
C26_AtMostOneWidget ==
    /\ Cardinality(sdk.containers) <= 1
    /\ Cardinality(sdk.roots) <= 1
    /\ sdk.lastCall = "destroy" =>
          /\ sdk.widgetInstance = 0
          /\ sdk.widgetRoot = 0
          /\ sdk.containers = {}
          /\ sdk.roots = {}
    /\ ~sdk.threw
    /\ (sdk.lastCall \in {"open", "close"} /\ sdk.widgetInstance = 0) => ~sdk.dispatched

\* The parts of C26 that do hold: nothing is thrown to the caller, destroy
\* leaves neither instance nor root of its own, open and close do nothing
\* without an instance.
C26_WhatHolds ==
    /\ ~sdk.threw
    /\ sdk.lastCall = "destroy" => (sdk.widgetInstance = 0 /\ sdk.widgetRoot = 0)
    /\ (sdk.lastCall \in {"open", "close"} /\ sdk.widgetInstance = 0) => ~sdk.dispatched

\* C28: while a file of an upload batch is being uploaded or processed, the
\* upload-progress list holds an entry for that file, with the status
\* 'uploading' or 'processing' the file has.
C28_RunningUploadIsShown ==
    \A u \in UploadIds :
       uploads[u].pc \in {"uploading", "processing"} =>
          \E i \in DOMAIN uploadProgress :
             /\ uploadProgress[i].file = uploads[u].files[uploads[u].index]
             /\ uploadProgress[i].status = uploads[u].pc

\* C21: at most one request of the widget is in flight, and one is in
\* flight exactly while isLoading is true: no send is accepted while
\* isLoading is true, whatever the order of sends, completions, clear-chat
\* and renders.
C21_OneRequestInFlight ==
    /\ inFlight <= 1
    /\ isLoading <=> inFlight = 1
    /\ ~rendered.isLoading => ~isLoading

\* A second send was accepted after the first request had completed, and
\* (in the second disjunct's state) a completion is not rendered yet, so
\* that the handlers still see isLoading.
C21_Witness ==
    /\ isLoading
    /\ inFlight = 1
    /\ \E i, j \in DOMAIN messages :
          i < j /\ messages[i].role = "user" /\ messages[j].role = "user"

\* C22: every accepted send is followed by isLoading being false again,
\* and the step that resets isLoading appends exactly one assistant message.
C22_SendEndsWithOneAnswer ==
    /\ isLoading ~> ~isLoading
    /\ [][(isLoading /\ ~isLoading') =>
             /\ Len(messages') = Len(messages) + 1
             /\ messages'[Len(messages')].role = "assistant"
             /\ SubSeq(messages', 1, Len(messages)) = messages]_vars

\* C23: the assistant message of a send is appended to the list of the
\* session whose id the request carried.
C23_AnswerGoesToItsSession ==
    [][handleSendMessageResumes => call.request.sessionId = sessionId]_vars

\* C24: for a response of the documented shape that is not success: false,
\* the widget appends an assistant message with the response's reply and
\* products.
C24_ShapedResponseIsShown ==
    [][(/\ handleSendMessageResumes
        /\ call.pc = "returned"
        /\ call.body \in ValidBodies) =>
          messages' = Append(messages, aiMessageOf(call.body))]_vars

\* C25: the history sent with a message is the last min(n, maxHistoryLength)
\* of the n messages that were in the list before the user message, in
\* their order.
C25_HistoryIsTheLastMessages ==
    [][(\E message \in Texts : handleSendMessage(message)) =>
          LET n == Len(messages)
              k == Min(n, maxHistoryLength)
          IN  call'.request.history = SubSeq(messages, n - k + 1, n)]_vars

\* C25 for a maxHistoryLength of at least 1.
C25_HoldsForPositiveLengths ==
    [][((\E message \in Texts : handleSendMessage(message)) /\ maxHistoryLength >= 1) =>
          LET n == Len(messages)
              k == Min(n, maxHistoryLength)
          IN  call'.request.history = SubSeq(messages, n - k + 1, n)]_vars

=============================================================================
